---- MODULE Spec2Model ----
(***************************************************************************)
(* ghost: the process execution engine (internal/runner) and the webhook   *)
(* delivery client (internal/webhook) as state machines.                   *)
(*                                                                         *)
(* The runner: every call of runner.Execute has its own state (the         *)
(* variables are functions of the call), made of Execute itself, the       *)
(* goroutines os/exec starts for it (the context watcher, the stderr       *)
(* copier), the context's timer, the child process and a descendant the    *)
(* child may fork.  Execute keeps nothing outside its locals, so calls     *)
(* share the clock only.                                                   *)
(***************************************************************************)
EXTENDS Integers, Sequences, FiniteSets, TLC

\* ---------------------------------------------------------------- bounds
\* the clock runs from 0 to MaxTime
MaxTime == 3
\* the configured Timeout is 0 (none) or 1..MaxTimeout clock ticks
MaxTimeout == 2
\* chunks the child and its descendant write to stderr in one run
MaxChunks == 2
\* RetryConfig.MaxRetries is 0..MaxMaxRetries
MaxMaxRetries == 2

\* exit codes a child ends with on its own
ExitCodes == {0, 1, 42}

\* ------------------------------------------------------------- constants
StatusSuccess == "success"
StatusFailed == "failed"
StatusTimeout == "timeout"

Statuses == {StatusSuccess, StatusFailed, StatusTimeout}

\* context.DeadlineExceeded, the only error the context of Execute can carry
\* before Execute returns (cancel is deferred)
DeadlineExceeded == "DeadlineExceeded"

\* the ways a child ends on its own: exit(n), or death by a signal the runner
\* did not send (its number in n)
ChildEnds == [how : {"exit"}, n : ExitCodes] \cup [how : {"signal"}, n : {11}]

\* the wait status of a child the runner's Kill terminated (SIGKILL)
KilledStatus == [how |-> "killed", n |-> 9]

NoStatus == [how |-> "none", n |-> 0]

\* outcomes of createFileWithDir: MkdirAll fails, os.Create fails, both succeed
CreateOutcomes == {"ok", "mkdirFails", "createFails"}

\* outcomes of resolving and starting the command: LookPath fails, the
\* fork/exec fails, the child runs
CommandOutcomes == {"ok", "notFound", "execFails"}

\* Config.Timeout and Config.Verbose; the paths and the command are
\* represented by what the environment answers for them (env)
Configs == [Timeout : 0..MaxTimeout, Verbose : BOOLEAN]

\* what the file system answers for the three paths, what the command does
\* when started: how the child ends on its own, whether it forks a descendant,
\* how many chunks it and its descendant write to stderr at most
Envs == [input : BOOLEAN, output : CreateOutcomes, stderr : CreateOutcomes,
         command : CommandOutcomes, childEnd : ChildEnds, forks : BOOLEAN,
         chunks : 0..MaxChunks]

VARIABLES
    config,     \* the *Config passed to Execute
    env,        \* what the file system and the command answer in this run
    pc,         \* position of Execute
    now,        \* the clock
    ctx,        \* the context of the command: [exists, deadline, err]
    openFiles,  \* file handles Execute holds open
    created,    \* paths created or truncated by Execute
    startTime,  \* startTime of Execute
    err,        \* the error cmd.Run() is building / has returned
    child,      \* the child process: [state, status]
    desc,       \* a descendant forked by the child, holding its stderr
    watch,      \* the watchCtx goroutine of os/exec: [pc, err]
    copier,     \* the goroutine copying the stderr pipe: [pc, failed, cur, tried]
    pipeBuf,    \* the chunks in the stderr pipe, not yet copied, oldest first
    written,    \* number of chunks written to stderr so far; chunk k is the k-th
    stderrFile, \* the chunks that reached the captured stderr file, in order
    terminal,   \* the chunks that reached the runner's own stderr, in order
    result,     \* what Execute returned: [kind, Status, ExitCode, ExecutionTime, err]
    hist,       \* history: what had happened when the child ended / the timer fired
    retryConfig, \* the *RetryConfig of the webhook client
    senv,       \* what the payload and the endpoint configuration answer
    spc,        \* position of Send
    attempt,    \* the loop variable of Send
    sctx,       \* the context Send derives from its caller's: [exists, err]
    cancelled,  \* the caller has cancelled its context
    timer,      \* the timer of time.After in the backoff
    response,   \* statusCode, err of the last sendRequest
    lastErr,    \* lastErr of Send
    requests,   \* number of HTTP requests sent
    responses,  \* what sendRequest returned and when, attempt by attempt
    sendResult, \* the error Send returned
    wconfig,    \* the webhook *Config of the client: AuthType, AuthToken, Headers
    sentHeaders, \* the headers of the HTTP requests sent, request by request
    pending,    \* the HTTP requests of the call that are in flight
    marshals,   \* the calls of json.Marshal the call of Send has made
    jsonPayload, \* Send's jsonPayload: the bytes json.Marshal returned
    sentBodies, \* the bodies of the HTTP requests sent, request by request
    waitLog,    \* the backoff waits of the call: argument of calculateBackoff, state
    prior,      \* the calls of Send the client has finished before this one
    webhookURL, \* OutputJSONAndWebhook: a webhook URL is configured
    jsonResult, \* OutputJSONAndWebhook: the *output.Result it was given
    opc,        \* position of OutputJSONAndWebhook
    payload,    \* the payload OutputJSONAndWebhook handed to Send
    printed,    \* the JSON objects printed to stdout
    outErr,     \* the error OutputJSONAndWebhook returned
    backoffIn,  \* calculateBackoff: attempt, RetryConfig, the random number drawn
    backoffOut, \* calculateBackoff: the duration returned
    flags,      \* ghost run: the flags of the invocation
    cenv,       \* ghost run: what the environment of the invocation answers
    cpc,        \* ghost run: position of PreRunE and runCommand
    runTimeout, \* ghost run: runFlags.Timeout
    execResult, \* ghost run: what runner.Execute returned to runCommand
    uploaded,   \* ghost run: the files HandleUploads has uploaded
    effects,    \* ghost run: what the invocation has done, in order
    cmdErr      \* ghost run: the error the invocation returned

\* every variable but the clock is a function of the call
runnerVars == <<config, env, pc, now, ctx, openFiles, created, startTime, err, child,
                desc, watch, copier, pipeBuf, written, stderrFile, terminal, result,
                hist>>

sendVars == <<retryConfig, senv, spc, attempt, sctx, cancelled, timer, response,
              lastErr, requests, responses, sendResult, wconfig, sentHeaders,
              pending, marshals, jsonPayload, sentBodies, waitLog, prior>>

outputVars == <<webhookURL, jsonResult, opc, payload, printed, outErr>>

backoffVars == <<backoffIn, backoffOut>>

cmdVars == <<flags, cenv, cpc, runTimeout, execResult, uploaded, effects, cmdErr>>

vars == <<runnerVars, sendVars, outputVars, backoffVars, cmdVars>>

procVars == <<child, desc, watch, copier, pipeBuf, written, stderrFile, terminal>>

\* the calls of Execute of this behaviour
Calls == DOMAIN pc

\* ------------------------------------------------------------ pure parts

\* syscall.WaitStatus.ExitStatus(): the exit code of an exited process, -1 of
\* one that did not exit (it was signalled)
ExitStatus(ws) == IF ws.how = "exit" THEN ws.n ELSE -1

\* os.ProcessState.Success()
Success(ws) == ws.how = "exit" /\ ws.n = 0

\* HasTimeout with the comparison off by one: a zero Timeout makes a context
HasTimeoutNonNegative(cfg) == cfg.Timeout >= 0

\* Execute line 66: a context with a deadline is made for a positive Timeout
HasTimeout(cfg) == cfg.Timeout > 0

NoResult == [kind |-> "none", Status |-> "", ExitCode |-> 0, ExecutionTime |-> 0,
             err |-> "nil"]

MkResult(s, code, t) == [kind |-> "result", Status |-> s, ExitCode |-> code,
                         ExecutionTime |-> t, err |-> "nil"]

MkError(e) == [kind |-> "error", Status |-> "", ExitCode |-> 0, ExecutionTime |-> 0,
               err |-> e]

\* Classify with the exit code of a failed child never assigned: it keeps
\* its initial 0
ClassifyExitCodeUnset(e, c, ws, t) ==
    IF e # "nil"
    THEN IF c.exists /\ c.err = DeadlineExceeded
         THEN MkResult(StatusTimeout, -1, t)
         ELSE IF e = "ExitError"
              THEN MkResult(StatusFailed, 0, t)
              ELSE MkError("failed to start command")
    ELSE MkResult(StatusSuccess, 0, t)

\* Classify without the check of the context: only an ExitError is a Result
ClassifyExitErrorOnly(e, c, ws, t) ==
    IF e # "nil"
    THEN IF e = "ExitError"
         THEN MkResult(StatusFailed, ExitStatus(ws), t)
         ELSE MkError("failed to start command")
    ELSE MkResult(StatusSuccess, 0, t)

\* Execute lines 103-133: status and exit code from the error of cmd.Run(),
\* the context's error at the time of the check, and the wait status
Classify(e, c, ws, t) ==
    IF e # "nil"
    THEN IF c.exists /\ c.err = DeadlineExceeded
         THEN MkResult(StatusTimeout, -1, t)
         ELSE IF e = "ExitError"
              THEN MkResult(StatusFailed, ExitStatus(ws), t)
              ELSE MkError("failed to start command")
    ELSE MkResult(StatusSuccess, 0, t)

\* -------------------------------------------------------------- initial

NoCtx == [exists |-> FALSE, deadline |-> 0, err |-> "nil"]

NoHist == [firedAtExit |-> FALSE, runningAtFire |-> FALSE, preStartFire |-> FALSE]

\* no copier goroutine: stderr is the *os.File itself
NoCopier == [pc |-> "none", failed |-> FALSE, cur |-> 0, tried |-> {}]

\* the state before the calls cs of Execute, with configurations from cfgs
\* and environments from envs
RunnerInit(cs, cfgs, envs) ==
    /\ config \in [cs -> cfgs]
    /\ env \in [cs -> envs]
    /\ pc = [i \in cs |-> "create"]
    /\ now = 0
    /\ ctx = [i \in cs |-> NoCtx]
    /\ openFiles = [i \in cs |-> {}]
    /\ created = [i \in cs |-> {}]
    /\ startTime = [i \in cs |-> 0]
    /\ err = [i \in cs |-> "nil"]
    /\ child = [i \in cs |-> [state |-> "none", status |-> NoStatus]]
    /\ desc = [i \in cs |-> "none"]
    /\ watch = [i \in cs |-> [pc |-> "none", err |-> "nil"]]
    /\ copier = [i \in cs |-> NoCopier]
    /\ pipeBuf = [i \in cs |-> <<>>]
    /\ written = [i \in cs |-> 0]
    /\ stderrFile = [i \in cs |-> <<>>]
    /\ terminal = [i \in cs |-> <<>>]
    /\ result = [i \in cs |-> NoResult]
    /\ hist = [i \in cs |-> NoHist]


\* the error cmd.Wait() derives from the state c.Process.Wait() returned
WaitErr(ws) == IF Success(ws) THEN "nil" ELSE "ExitError"

\* ------------------------------------------------------- Execute, by step

\* a return of Execute: the deferred calls run (cancel, the Close of every
\* file opened so far)
Return(i, r) ==
    /\ result' = [result EXCEPT ![i] = r]
    /\ pc' = [pc EXCEPT ![i] = "done"]
    /\ openFiles' = [openFiles EXCEPT ![i] = {}]
    /\ ctx' = IF ctx[i].exists /\ ctx[i].err = "nil"
              THEN [ctx EXCEPT ![i].err = "Canceled"]
              ELSE ctx

\* lines 54-72: the command, with a context when Timeout > 0
CreateCommand(i) ==
    /\ pc[i] = "create"
    /\ ctx' = IF HasTimeout(config[i])
              THEN [ctx EXCEPT ![i] = [exists |-> TRUE,
                                       deadline |-> now + config[i].Timeout,
                                       err |-> "nil"]]
              ELSE ctx
    /\ pc' = [pc EXCEPT ![i] = "openInput"]
    /\ UNCHANGED <<sendVars, outputVars, backoffVars, cmdVars, config, env, now, openFiles, created, startTime, err, procVars,
                   result, hist>>

\* OpenInput placed after the output file: the output exists when the input
\* turns out to be missing
OpenInputAfterCreate(i) ==
    /\ pc[i] = "openInput"
    /\ IF env[i].input
       THEN /\ openFiles' = [openFiles EXCEPT ![i] = @ \cup {"input"}]
            /\ pc' = [pc EXCEPT ![i] = "createOutput"]
            /\ UNCHANGED <<ctx, result, created>>
       ELSE /\ Return(i, MkError("failed to open input file"))
            /\ created' = [created EXCEPT ![i] = @ \cup {<<"output", "dir">>,
                                                         <<"output", "file">>}]
    /\ UNCHANGED <<sendVars, outputVars, backoffVars, cmdVars, config, env, now, startTime, err, procVars, hist>>

\* lines 74-79
OpenInput(i) ==
    /\ pc[i] = "openInput"
    /\ IF env[i].input
       THEN /\ openFiles' = [openFiles EXCEPT ![i] = @ \cup {"input"}]
            /\ pc' = [pc EXCEPT ![i] = "createOutput"]
            /\ UNCHANGED <<ctx, result, created>>
       ELSE /\ Return(i, MkError("failed to open input file"))
            /\ UNCHANGED created
    /\ UNCHANGED <<sendVars, outputVars, backoffVars, cmdVars, config, env, now, startTime, err, procVars, hist>>

\* createFileWithDir whose failure returns past the deferred Close of the
\* files opened before it
CreateFileWithDirLeaks(i, what, outcome, next, msg) ==
    IF outcome = "ok"
    THEN /\ created' = [created EXCEPT ![i] = @ \cup {<<what, "dir">>, <<what, "file">>}]
         /\ openFiles' = [openFiles EXCEPT ![i] = @ \cup {what}]
         /\ pc' = [pc EXCEPT ![i] = next]
         /\ UNCHANGED <<ctx, result>>
    ELSE /\ result' = [result EXCEPT ![i] = MkError(msg)]
         /\ pc' = [pc EXCEPT ![i] = "done"]
         /\ created' = IF outcome = "createFails"
                       THEN [created EXCEPT ![i] = @ \cup {<<what, "dir">>}]
                       ELSE created
         /\ UNCHANGED <<ctx, openFiles>>

\* createFileWithDir (lines 41-52) for the destination named what
CreateFileWithDir(i, what, outcome, next, msg) ==
    IF outcome = "mkdirFails"
    THEN /\ Return(i, MkError(msg))
         /\ UNCHANGED created
    ELSE IF outcome = "createFails"
         THEN /\ Return(i, MkError(msg))
              /\ created' = [created EXCEPT ![i] = @ \cup {<<what, "dir">>}]
         ELSE /\ created' = [created EXCEPT ![i] = @ \cup {<<what, "dir">>,
                                                           <<what, "file">>}]
              /\ openFiles' = [openFiles EXCEPT ![i] = @ \cup {what}]
              /\ pc' = [pc EXCEPT ![i] = next]
              /\ UNCHANGED <<ctx, result>>

\* lines 81-86
CreateOutput(i) ==
    /\ pc[i] = "createOutput"
    /\ CreateFileWithDir(i, "output", env[i].output, "createStderr",
                         "failed to create output file")
    /\ UNCHANGED <<sendVars, outputVars, backoffVars, cmdVars, config, env, now, startTime, err, procVars, hist>>

\* lines 88-99
CreateStderr(i) ==
    /\ pc[i] = "createStderr"
    /\ CreateFileWithDir(i, "stderr", env[i].stderr, "start",
                         "failed to create stderr file")
    /\ UNCHANGED <<sendVars, outputVars, backoffVars, cmdVars, config, env, now, startTime, err, procVars, hist>>

\* lines 101-102, first half of cmd.Run(): cmd.Start().  A LookPath error
\* is returned first, then the error of a context that is already done, then
\* the error of the fork/exec; otherwise the child runs, watchCtx is started
\* when the command has a context and the copier when stderr is no *os.File
Start(i) ==
    /\ pc[i] = "start"
    /\ startTime' = [startTime EXCEPT ![i] = now]
    /\ IF env[i].command = "notFound"
       THEN /\ err' = [err EXCEPT ![i] = "StartError"]
            /\ pc' = [pc EXCEPT ![i] = "classify"]
            /\ UNCHANGED procVars
       ELSE IF ctx[i].exists /\ ctx[i].err # "nil"
            THEN /\ err' = [err EXCEPT ![i] = ctx[i].err]
                 /\ pc' = [pc EXCEPT ![i] = "classify"]
                 /\ UNCHANGED procVars
            ELSE IF env[i].command = "execFails"
                 THEN /\ err' = [err EXCEPT ![i] = "StartError"]
                      /\ pc' = [pc EXCEPT ![i] = "classify"]
                      /\ UNCHANGED procVars
                 ELSE /\ child' = [child EXCEPT ![i] = [state |-> "running",
                                                        status |-> NoStatus]]
                      /\ watch' = [watch EXCEPT ![i] =
                                     [pc |-> IF ctx[i].exists THEN "select" ELSE "none",
                                      err |-> "nil"]]
                      /\ copier' = [copier EXCEPT ![i].pc =
                                      IF config[i].Verbose THEN "copying" ELSE "none"]
                      /\ err' = [err EXCEPT ![i] = "nil"]
                      /\ pc' = [pc EXCEPT ![i] = "wait"]
                      /\ UNCHANGED <<desc, pipeBuf, written, stderrFile, terminal>>
    /\ UNCHANGED <<sendVars, outputVars, backoffVars, cmdVars, config, env, now, ctx, openFiles, created, result, hist>>

\* ProcessWait as a race of the child's end against the context that gives
\* up the wait when the context is done, leaving the child unreaped
ProcessWaitAbandonedOnDeadline(i) ==
    /\ pc[i] = "wait"
    /\ \/ /\ child[i].state = "zombie"
          /\ child' = [child EXCEPT ![i].state = "reaped"]
          /\ err' = [err EXCEPT ![i] = WaitErr(child[i].status)]
       \/ /\ child[i].state = "running"
          /\ ctx[i].err # "nil"
          /\ err' = [err EXCEPT ![i] = ctx[i].err]
          /\ UNCHANGED child
    /\ pc' = [pc EXCEPT ![i] = IF watch[i].pc # "none" THEN "recv" ELSE "await"]
    /\ UNCHANGED <<sendVars, outputVars, backoffVars, cmdVars, config, env, now, ctx, openFiles, created, startTime, desc, watch,
                   copier, pipeBuf, written, stderrFile, terminal, result, hist>>

\* cmd.Wait(): c.Process.Wait() returns once the child has ended, and reaps it
ProcessWait(i) ==
    /\ pc[i] = "wait"
    /\ child[i].state = "zombie"
    /\ child' = [child EXCEPT ![i].state = "reaped"]
    /\ err' = [err EXCEPT ![i] = WaitErr(child[i].status)]
    /\ pc' = [pc EXCEPT ![i] = IF watch[i].pc # "none" THEN "recv" ELSE "await"]
    /\ UNCHANGED <<sendVars, outputVars, backoffVars, cmdVars, config, env, now, ctx, openFiles, created, startTime, desc, watch,
                   copier, pipeBuf, written, stderrFile, terminal, result, hist>>

\* cmd.Wait(): watch := <-c.ctxResult; an error of c.Process.Wait() or an
\* ExitError is preferred to the watcher's
RecvCtxResult(i) ==
    /\ pc[i] = "recv"
    /\ watch[i].pc \in {"select", "send"}
    /\ err' = [err EXCEPT ![i] = IF @ = "nil" /\ watch[i].err # "nil"
                                 THEN watch[i].err ELSE @]
    /\ watch' = [watch EXCEPT ![i].pc = "done"]
    /\ pc' = [pc EXCEPT ![i] = "await"]
    /\ UNCHANGED <<sendVars, outputVars, backoffVars, cmdVars, config, env, now, ctx, openFiles, created, startTime, child, desc,
                   copier, pipeBuf, written, stderrFile, terminal, result, hist>>

\* cmd.Wait(): c.awaitGoroutines(timer) with no WaitDelay waits for the
\* copier to finish; its error is reported when there is no other
AwaitGoroutines(i) ==
    /\ pc[i] = "await"
    /\ copier[i].pc \in {"none", "done"}
    /\ err' = [err EXCEPT ![i] = IF @ = "nil" /\ copier[i].failed THEN "CopyError" ELSE @]
    /\ pc' = [pc EXCEPT ![i] = "classify"]
    /\ UNCHANGED <<sendVars, outputVars, backoffVars, cmdVars, config, env, now, ctx, openFiles, created, startTime, procVars,
                   result, hist>>

\* lines 103-134: endTime, executionTime, the status and the return
ClassifyAndReturn(i) ==
    /\ pc[i] = "classify"
    /\ Return(i, Classify(err[i], ctx[i], child[i].status, now - startTime[i]))
    /\ UNCHANGED <<sendVars, outputVars, backoffVars, cmdVars, config, env, now, created, startTime, err, procVars, hist>>

\* ------------------------------------------------- the context and os/exec

\* the timer of context.WithTimeout runs once the deadline has passed
DeadlineFire(i) ==
    /\ ctx[i].exists
    /\ ctx[i].err = "nil"
    /\ now >= ctx[i].deadline
    /\ ctx' = [ctx EXCEPT ![i].err = DeadlineExceeded]
    /\ hist' = [hist EXCEPT ![i].runningAtFire = (child[i].state = "running"),
                            ![i].preStartFire = (child[i].state = "none")]
    /\ UNCHANGED <<sendVars, outputVars, backoffVars, cmdVars, config, env, pc, now, openFiles, created, startTime, err, procVars,
                   result>>

Tick ==
    /\ \E i \in Calls : pc[i] # "done"
    /\ now < MaxTime
    /\ now' = now + 1
    /\ UNCHANGED <<sendVars, outputVars, backoffVars, cmdVars, config, env, pc, ctx, openFiles, created, startTime, err, procVars,
                   result, hist>>

\* watchCtx: its select leaves by <-c.ctx.Done()
WatchCtxDone(i) ==
    /\ watch[i].pc = "select"
    /\ ctx[i].err # "nil"
    /\ watch' = [watch EXCEPT ![i].pc = "cancel"]
    /\ UNCHANGED <<sendVars, outputVars, backoffVars, cmdVars, config, env, pc, now, ctx, openFiles, created, startTime, err, child,
                   desc, copier, pipeBuf, written, stderrFile, terminal, result, hist>>

\* WatchCtxCancel for a command kept in a variable the calls share: the
\* signal goes to the child of the first call, whichever watcher sends it
WatchCtxCancelShared(i) ==
    LET j == CHOOSE c \in Calls : \A d \in Calls : c <= d
    IN  /\ watch[i].pc = "cancel"
        /\ watch' = [watch EXCEPT ![i] = [pc |-> "send", err |-> ctx[i].err]]
        /\ child' = IF child[j].state = "running"
                    THEN [child EXCEPT ![j] = [state |-> "zombie",
                                               status |-> KilledStatus]]
                    ELSE child
        /\ UNCHANGED <<sendVars, outputVars, backoffVars, cmdVars, config, env, pc, now, ctx, openFiles, created,
                       startTime, err, desc, copier, pipeBuf, written, stderrFile,
                       terminal, result, hist>>

\* watchCtx: c.Cancel() is c.Process.Kill().  It answers os.ErrProcessDone
\* for a process already waited for (no error is injected); otherwise the
\* signal is sent, a running child dies of it, and the error is ctx.Err()
WatchCtxCancel(i) ==
    /\ watch[i].pc = "cancel"
    /\ IF child[i].state = "reaped"
       THEN /\ watch' = [watch EXCEPT ![i] = [pc |-> "send", err |-> "nil"]]
            /\ UNCHANGED child
       ELSE /\ watch' = [watch EXCEPT ![i] = [pc |-> "send", err |-> ctx[i].err]]
            /\ child' = IF child[i].state = "running"
                        THEN [child EXCEPT ![i] = [state |-> "zombie",
                                                   status |-> KilledStatus]]
                        ELSE child
    /\ UNCHANGED <<sendVars, outputVars, backoffVars, cmdVars, config, env, pc, now, ctx, openFiles, created, startTime, err, desc,
                   copier, pipeBuf, written, stderrFile, terminal, result, hist>>

\* --------------------------------------------- the child and its stderr

\* the child forks a descendant that inherits its stderr
ChildFork(i) ==
    /\ child[i].state = "running"
    /\ env[i].forks
    /\ desc[i] = "none"
    /\ desc' = [desc EXCEPT ![i] = "running"]
    /\ UNCHANGED <<sendVars, outputVars, backoffVars, cmdVars, config, env, pc, now, ctx, openFiles, created, startTime, err, child,
                   watch, copier, pipeBuf, written, stderrFile, terminal, result, hist>>

\* the child or its descendant writes a chunk to stderr: into the pipe of
\* the copier in verbose mode, into the stderr file otherwise
WriteStderr(i) ==
    /\ child[i].state = "running" \/ desc[i] = "running"
    /\ written[i] < env[i].chunks
    /\ written' = [written EXCEPT ![i] = @ + 1]
    /\ IF config[i].Verbose
       THEN /\ pipeBuf' = [pipeBuf EXCEPT ![i] = Append(@, written[i] + 1)]
            /\ UNCHANGED stderrFile
       ELSE /\ stderrFile' = [stderrFile EXCEPT ![i] = Append(@, written[i] + 1)]
            /\ UNCHANGED pipeBuf
    /\ UNCHANGED <<sendVars, outputVars, backoffVars, cmdVars, config, env, pc, now, ctx, openFiles, created, startTime, err, child,
                   desc, watch, copier, terminal, result, hist>>

\* the child ends on its own
ChildExit(i) ==
    /\ child[i].state = "running"
    /\ child' = [child EXCEPT ![i] = [state |-> "zombie", status |-> env[i].childEnd]]
    /\ hist' = [hist EXCEPT ![i].firedAtExit = (ctx[i].err # "nil")]
    /\ UNCHANGED <<sendVars, outputVars, backoffVars, cmdVars, config, env, pc, now, ctx, openFiles, created, startTime, err, desc,
                   watch, copier, pipeBuf, written, stderrFile, terminal, result>>

DescExit(i) ==
    /\ desc[i] = "running"
    /\ desc' = [desc EXCEPT ![i] = "exited"]
    /\ UNCHANGED <<sendVars, outputVars, backoffVars, cmdVars, config, env, pc, now, ctx, openFiles, created, startTime, err, child,
                   watch, copier, pipeBuf, written, stderrFile, terminal, result, hist>>

\* the copier taking any chunk of the pipe, not the oldest
CopyWriteFileUnordered(i) ==
    /\ copier[i].pc = "copying"
    /\ \E k \in 1..Len(pipeBuf[i]) :
         /\ pipeBuf' = [pipeBuf EXCEPT ![i] =
                          SubSeq(@, 1, k - 1) \o SubSeq(@, k + 1, Len(@))]
         /\ stderrFile' = [stderrFile EXCEPT ![i] = Append(@, pipeBuf[i][k])]
         /\ copier' = [copier EXCEPT ![i] = [pc |-> "toTerminal", failed |-> FALSE,
                                             cur |-> pipeBuf[i][k], tried |-> {"file"}]]
    /\ UNCHANGED <<sendVars, outputVars, backoffVars, cmdVars, config, env, pc, now, ctx, openFiles, created, startTime, err, child,
                   desc, watch, written, terminal, result, hist>>

\* the copier, io.Copy(io.MultiWriter(stderrFile, os.Stderr), pipe): the
\* oldest chunk of the pipe is read and MultiWriter.Write writes it to its
\* first writer, the stderr file.  When that write fails MultiWriter returns
\* the error at once and io.Copy ends with it
CopyWriteFile(i) ==
    /\ copier[i].pc = "copying"
    /\ pipeBuf[i] # <<>>
    /\ pipeBuf' = [pipeBuf EXCEPT ![i] = Tail(@)]
    /\ \E ok \in BOOLEAN :
         IF ok
         THEN /\ stderrFile' = [stderrFile EXCEPT ![i] = Append(@, Head(pipeBuf[i]))]
              /\ copier' = [copier EXCEPT ![i] = [pc |-> "toTerminal", failed |-> FALSE,
                                                  cur |-> Head(pipeBuf[i]),
                                                  tried |-> {"file"}]]
         ELSE /\ copier' = [copier EXCEPT ![i] = [pc |-> "done", failed |-> TRUE,
                                                  cur |-> Head(pipeBuf[i]),
                                                  tried |-> {"file"}]]
              /\ UNCHANGED stderrFile
    /\ UNCHANGED <<sendVars, outputVars, backoffVars, cmdVars, config, env, pc, now, ctx, openFiles, created, startTime, err, child,
                   desc, watch, written, terminal, result, hist>>

\* MultiWriter.Write goes on to its second writer, os.Stderr, with the same
\* chunk; io.Copy reads the next chunk after it, or ends with its error
CopyWriteTerminal(i) ==
    /\ copier[i].pc = "toTerminal"
    /\ \E ok \in BOOLEAN :
         IF ok
         THEN /\ terminal' = [terminal EXCEPT ![i] = Append(@, copier[i].cur)]
              /\ copier' = [copier EXCEPT ![i] = [pc |-> "copying", failed |-> FALSE,
                                                  cur |-> 0, tried |-> {}]]
         ELSE /\ copier' = [copier EXCEPT ![i] = [pc |-> "done", failed |-> TRUE,
                                                  cur |-> @.cur,
                                                  tried |-> {"file", "terminal"}]]
              /\ UNCHANGED terminal
    /\ UNCHANGED <<sendVars, outputVars, backoffVars, cmdVars, config, env, pc, now, ctx, openFiles, created, startTime, err, child,
                   desc, watch, pipeBuf, written, stderrFile, result, hist>>

\* the copier reads EOF once the pipe is empty and no process holds its
\* write end
CopyEOF(i) ==
    /\ copier[i].pc = "copying"
    /\ pipeBuf[i] = <<>>
    /\ child[i].state \in {"zombie", "reaped"}
    /\ desc[i] # "running"
    /\ copier' = [copier EXCEPT ![i].pc = "done"]
    /\ UNCHANGED <<sendVars, outputVars, backoffVars, cmdVars, config, env, pc, now, ctx, openFiles, created, startTime, err, child,
                   desc, watch, pipeBuf, written, stderrFile, terminal, result, hist>>

\* ===================================================== the webhook client
\* One call of (*Client).Send: the retry loop, the context it derives from
\* the caller's, the backoff timer, and the HTTP exchange of an attempt.
\* Time is left out: the overall timeout and the backoff timer fire at any
\* moment after they were set.

\* HTTP status codes an endpoint answers with
StatusCodes == {200, 204, 301, 400, 404, 408, 425, 429, 500, 501, 502, 503, 504}

\* RetryConfig: MaxRetries, and an InitialDelay that is zero or not (without
\* a clock the length of a delay plays no part, only that a delay of zero
\* has passed when the wait begins)
RetryConfigs == [MaxRetries : 0..MaxMaxRetries, InitialDelay : 0..1]

\* what the payload and the endpoint configuration answer: json.Marshal
\* fails, http.NewRequestWithContext fails
SendEnvs == [marshalFails : BOOLEAN, buildFails : BOOLEAN]

\* the header fields of a request the model follows (in the canonical form
\* http.Header.Set stores them in)
HeaderNames == {"Content-Type", "Authorization", "X-Api-Key"}

\* the value of a header field the request does not carry
Absent == "<absent>"

\* Config.Headers: the custom headers of the endpoint, none or one for each
\* of the two fields the authentication uses
CustomHeaders ==
    {[k \in {} |-> ""],
     [k \in {"Authorization", "X-Api-Key"} |-> "custom-" \o k]}

\* Config as far as sendRequest builds headers from it
WebhookConfigs ==
    [AuthType : {"none", "bearer", "api-key"},
     AuthToken : {"test-token"},
     Headers : CustomHeaders]

\* sendRequest lines 113-116: Content-Type, then the custom headers
BaseHeaders(cfg) ==
    [k \in HeaderNames |->
        IF k \in DOMAIN cfg.Headers THEN cfg.Headers[k]
        ELSE IF k = "Content-Type" THEN "application/json"
        ELSE Absent]

\* the authentication of lines 119-124 on headers h
SetAuth(cfg, h) ==
    CASE cfg.AuthType = "bearer" ->
            [h EXCEPT !["Authorization"] = "Bearer " \o cfg.AuthToken]
      [] cfg.AuthType = "api-key" ->
            [h EXCEPT !["X-Api-Key"] = cfg.AuthToken]
      [] OTHER -> h

\* RequestHeaders with the custom headers set after the authentication
RequestHeadersCustomLast(cfg) ==
    LET h == SetAuth(cfg, [k \in HeaderNames |->
                 IF k = "Content-Type" THEN "application/json" ELSE Absent])
    IN  [k \in HeaderNames |->
            IF k \in DOMAIN cfg.Headers THEN cfg.Headers[k] ELSE h[k]]

\* sendRequest lines 112-124: the headers of the request of one attempt
RequestHeaders(cfg) == SetAuth(cfg, BaseHeaders(cfg))

\* isRetryableStatus with 400 (Bad Request) among the retryable codes
isRetryableStatusWith400(code) == code \in {400, 408, 429, 500, 502, 503, 504}

\* isRetryableStatus (retry.go lines 31-43)
isRetryableStatus(code) == code \in {408, 429, 500, 502, 503, 504}

\* IsSuccess that takes every status below 400 for a success
IsSuccessBelow400(rsp) == rsp.err = "nil" /\ rsp.status >= 200 /\ rsp.status < 400

\* lines 61-69: the timer of time.After(calculateBackoff(...)) as the select
\* is entered: one of a zero delay may be ready at once
BackoffTimers(rc) == IF rc.InitialDelay = 0 THEN {"ready", "armed"} ELSE {"armed"}

\* client.go line 79: the test of success
IsSuccess(rsp) == rsp.err = "nil" /\ rsp.status >= 200 /\ rsp.status < 300

\* Result.Score, a *int: nil, or a pointer to a value
NoScore == [set |-> FALSE, value |-> 0]

\* json.Marshal of a Result (result.go lines 3-19): score is omitempty and
\* left out when the pointer is nil, webhook_sent and webhook_error are
\* omitempty and left out at their zero values
Marshal(r) ==
    LET keys == {"status", "exit_code"}
                \cup (IF r.Score.set THEN {"score"} ELSE {})
                \cup (IF r.WebhookSent THEN {"webhook_sent"} ELSE {})
                \cup (IF r.WebhookError # "" THEN {"webhook_error"} ELSE {})
    IN  [k \in keys |->
            CASE k = "status" -> r.Status
              [] k = "exit_code" -> r.ExitCode
              [] k = "score" -> r.Score.value
              [] k = "webhook_sent" -> r.WebhookSent
              [] k = "webhook_error" -> r.WebhookError]

\* sendRequest with a json.Marshal of the payload for every attempt
AttemptPayloadRemarshalled(bytes, p, n) == [body |-> Marshal(p), marshals |-> n + 1]

\* lines 77 and 106-107: the body of the request of an attempt is read from
\* the bytes Send marshalled; sendRequest does not marshal
AttemptPayload(bytes, p, n) == [body |-> bytes, marshals |-> n]

\* an entry of waitLog with its state changed
SetLast(log, st) == [log EXCEPT ![Len(log)].state = st]

\* jsonPayload before json.Marshal has returned
NoBytes == <<>>

NoSendCtx == [exists |-> FALSE, err |-> "nil"]

NoResponse == [status |-> 0, err |-> "nil"]

NoLastErr == [kind |-> "nil", attempt |-> 0, status |-> 0, err |-> "nil"]

SendPending == [kind |-> "pending", attempts |-> 0, cause |-> NoLastErr]

\* the error values of Send: line 49, line 72, line 99, line 103
SendError(kind, n, cause) == [kind |-> kind, attempts |-> n, cause |-> cause]

\* what sendRequest returned to Send, with the state the context of the call
\* was in at that moment
Observation(rsp, c) == [status |-> rsp.status, err |-> rsp.err, ctx |-> c.err]

\* lines 88-92: lastErr of the attempt
MkLastErr(a, rsp) ==
    IF rsp.err # "nil"
    THEN [kind |-> "transport", attempt |-> a + 1, status |-> 0, err |-> rsp.err]
    ELSE [kind |-> "status", attempt |-> a + 1, status |-> rsp.status, err |-> "nil"]

\* Send is not called in this behaviour
SendIdle ==
    /\ retryConfig \in [MaxRetries : {0}, InitialDelay : {1}]
    /\ senv \in [marshalFails : {FALSE}, buildFails : {FALSE}]
    /\ wconfig \in [AuthType : {"none"}, AuthToken : {"test-token"},
                    Headers : {[k \in {} |-> ""]}]
    /\ sentHeaders = <<>>
    /\ pending = 0
    /\ marshals = 0
    /\ jsonPayload = NoBytes
    /\ sentBodies = <<>>
    /\ waitLog = <<>>
    /\ prior = <<>>
    /\ spc = "idle"
    /\ attempt = 0
    /\ sctx = NoSendCtx
    /\ cancelled = FALSE
    /\ timer = "none"
    /\ response = NoResponse
    /\ lastErr = NoLastErr
    /\ requests = 0
    /\ responses = <<>>
    /\ sendResult = SendPending

\* the state before a call of Send
SendInit ==
    /\ retryConfig \in RetryConfigs
    /\ senv \in SendEnvs
    /\ wconfig \in WebhookConfigs
    /\ sentHeaders = <<>>
    /\ pending = 0
    /\ marshals = 0
    /\ jsonPayload = NoBytes
    /\ sentBodies = <<>>
    /\ waitLog = <<>>
    /\ prior = <<>>
    /\ spc = "marshal"
    /\ attempt = 0
    /\ sctx = NoSendCtx
    /\ cancelled = FALSE
    /\ timer = "none"
    /\ response = NoResponse
    /\ lastErr = NoLastErr
    /\ requests = 0
    /\ responses = <<>>
    /\ sendResult = SendPending

\* a return of Send: the deferred cancel runs
SendReturn(e) ==
    /\ sendResult' = e
    /\ spc' = "done"
    /\ sctx' = IF sctx.exists /\ sctx.err = "nil"
               THEN [sctx EXCEPT !.err = "Canceled"]
               ELSE sctx

\* SendBegin without the test of line 60: the first attempt waits in the
\* select like every other
SendBeginWithBackoff ==
    /\ spc = "marshal"
    /\ IF senv.marshalFails
       THEN /\ SendReturn(SendError("marshal", 0, NoLastErr))
            /\ UNCHANGED <<jsonPayload, timer, waitLog>>
       ELSE /\ jsonPayload' = Marshal(payload)
            /\ sctx' = [exists |-> TRUE,
                        err |-> IF cancelled THEN "Canceled" ELSE "nil"]
            /\ spc' = "backoff"
            /\ timer' = "armed"
            /\ waitLog' = Append(waitLog, [attempt |-> 0, state |-> "waiting"])
            /\ UNCHANGED sendResult
    /\ marshals' = marshals + 1
    /\ UNCHANGED <<runnerVars, outputVars, backoffVars, cmdVars, wconfig, sentHeaders,
                   pending, sentBodies, prior,
                   retryConfig, senv, attempt, cancelled, response,
                   lastErr, requests, responses>>

\* lines 47-56: the payload is marshalled, the context with the overall
\* timeout is derived from the caller's; the first attempt has no backoff
SendBegin ==
    /\ spc = "marshal"
    /\ IF senv.marshalFails
       THEN /\ SendReturn(SendError("marshal", 0, NoLastErr))
            /\ UNCHANGED jsonPayload
       ELSE /\ jsonPayload' = Marshal(payload)
            /\ sctx' = [exists |-> TRUE,
                        err |-> IF cancelled THEN "Canceled" ELSE "nil"]
            /\ spc' = "request"
            /\ UNCHANGED sendResult
    /\ marshals' = marshals + 1
    /\ UNCHANGED <<runnerVars, outputVars, backoffVars, cmdVars, wconfig, sentHeaders,
                   pending, sentBodies, waitLog, prior,
                   retryConfig, senv, attempt, cancelled, timer, response,
                   lastErr, requests, responses>>

\* BackoffTimerFire for a select that does not commit to the event that woke
\* it: the timer may still win after the context is done
BackoffTimerFireAnyTime ==
    /\ spc = "backoff"
    /\ timer = "armed"
    /\ timer' = "fired"
    /\ UNCHANGED <<runnerVars, outputVars, backoffVars, cmdVars, wconfig, sentHeaders,
                   pending, marshals, jsonPayload, sentBodies, waitLog, prior,
                   retryConfig, senv, spc, attempt, sctx, cancelled,
                   response, lastErr, requests, responses, sendResult>>

\* line 69: the timer of time.After(delay) fires while Send is parked in the
\* select of lines 68-73.  The select is left by the case that becomes ready
\* first: once the context is done the timer cannot win any more
BackoffTimerFire ==
    /\ spc = "backoff"
    /\ timer = "armed"
    /\ sctx.err = "nil"
    /\ timer' = "fired"
    /\ UNCHANGED <<runnerVars, outputVars, backoffVars, cmdVars, wconfig, sentHeaders,
                   pending, marshals, jsonPayload, sentBodies, waitLog, prior,
                   retryConfig, senv, spc, attempt, sctx, cancelled,
                   response, lastErr, requests, responses, sendResult>>

\* lines 68-70: the select leaves by the timer, which fired during the wait
\* or was ready when the select was entered
BackoffContinue ==
    /\ spc = "backoff"
    /\ timer \in {"fired", "ready"}
    /\ timer' = "none"
    /\ spc' = "request"
    /\ waitLog' = SetLast(waitLog, "completed")
    /\ UNCHANGED <<runnerVars, outputVars, backoffVars, cmdVars, wconfig, sentHeaders,
                   pending, marshals, jsonPayload, sentBodies, prior,
                   retryConfig, senv, attempt, sctx, cancelled, response,
                   lastErr, requests, responses, sendResult>>

\* lines 71-72: the select leaves by <-ctx.Done(): the context is done and
\* the timer has not fired before it; when both cases are ready as the
\* select is entered either is taken
BackoffAbort ==
    /\ spc = "backoff"
    /\ timer \in {"armed", "ready"}
    /\ sctx.err # "nil"
    /\ timer' = "none"
    /\ SendReturn(SendError("timeout", attempt,
                            [NoLastErr EXCEPT !.kind = "ctx", !.err = sctx.err]))
    /\ waitLog' = SetLast(waitLog, "aborted")
    /\ UNCHANGED <<runnerVars, outputVars, backoffVars, cmdVars, wconfig, sentHeaders,
                   pending, marshals, jsonPayload, sentBodies, prior,
                   retryConfig, senv, attempt, cancelled, response, lastErr,
                   requests, responses>>

\* sendRequest lines 107-129, up to the request being on its way: an error
\* of NewRequestWithContext, or of Do for a context that is already done,
\* comes back with status 0 and nothing is sent
SendRequestStart ==
    /\ spc = "request"
    /\ IF senv.buildFails \/ sctx.err # "nil"
       THEN /\ response' = [status |-> 0,
                            err |-> IF senv.buildFails THEN "build" ELSE sctx.err]
            /\ responses' = Append(responses, Observation(response', sctx))
            /\ spc' = "handle"
            /\ UNCHANGED <<requests, sentHeaders, sentBodies, pending>>
       ELSE /\ requests' = requests + 1
            /\ pending' = pending + 1
            /\ sentHeaders' = Append(sentHeaders, RequestHeaders(wconfig))
            /\ sentBodies' = Append(sentBodies,
                   AttemptPayload(jsonPayload, payload, marshals).body)
            /\ spc' = "inflight"
            /\ UNCHANGED <<response, responses>>
    /\ marshals' = AttemptPayload(jsonPayload, payload, marshals).marshals
    /\ UNCHANGED <<runnerVars, outputVars, backoffVars, cmdVars, wconfig,
                   jsonPayload, waitLog, prior,
                   retryConfig, senv, attempt, sctx, cancelled, timer,
                   lastErr, sendResult>>

\* sendRequest lines 126-135: the endpoint answers with a status
ServerRespond ==
    /\ spc = "inflight"
    /\ \E s \in StatusCodes :
         /\ response' = [status |-> s, err |-> "nil"]
         /\ responses' = Append(responses, Observation(response', sctx))
    /\ spc' = "handle"
    /\ pending' = pending - 1
    /\ UNCHANGED <<runnerVars, outputVars, backoffVars, cmdVars, wconfig, sentHeaders,
                   marshals, jsonPayload, sentBodies, waitLog, prior,
                   retryConfig, senv, attempt, sctx, cancelled, timer,
                   lastErr, requests, sendResult>>

\* sendRequest lines 126-129: Do fails without a response (connection
\* refused, the 10 s timeout of the http.Client)
TransportError ==
    /\ spc = "inflight"
    /\ response' = [status |-> 0, err |-> "transport"]
    /\ responses' = Append(responses, Observation(response', sctx))
    /\ spc' = "handle"
    /\ pending' = pending - 1
    /\ UNCHANGED <<runnerVars, outputVars, backoffVars, cmdVars, wconfig, sentHeaders,
                   marshals, jsonPayload, sentBodies, waitLog, prior,
                   retryConfig, senv, attempt, sctx, cancelled, timer,
                   lastErr, requests, sendResult>>

\* RequestCtxAbort for a Do that returns when the context is done and
\* leaves the request on the wire
RequestCtxAbortLeavesRequest ==
    /\ spc = "inflight"
    /\ sctx.err # "nil"
    /\ response' = [status |-> 0, err |-> sctx.err]
    /\ responses' = Append(responses, Observation(response', sctx))
    /\ spc' = "handle"
    /\ UNCHANGED <<runnerVars, outputVars, backoffVars, cmdVars, wconfig, sentHeaders,
                   pending, marshals, jsonPayload, sentBodies, waitLog, prior,
                   retryConfig, senv, attempt, sctx, cancelled, timer,
                   lastErr, requests, sendResult>>

\* sendRequest lines 126-129: Do gives up the request in flight when the
\* context is done
RequestCtxAbort ==
    /\ spc = "inflight"
    /\ sctx.err # "nil"
    /\ response' = [status |-> 0, err |-> sctx.err]
    /\ responses' = Append(responses, Observation(response', sctx))
    /\ spc' = "handle"
    /\ pending' = pending - 1
    /\ UNCHANGED <<runnerVars, outputVars, backoffVars, cmdVars, wconfig, sentHeaders,
                   marshals, jsonPayload, sentBodies, waitLog, prior,
                   retryConfig, senv, attempt, sctx, cancelled, timer,
                   lastErr, requests, sendResult>>

\* HandleResponse for a loop that does not count its attempts (line 58
\* without attempt++)
HandleResponseNoCount ==
    /\ spc = "handle"
    /\ IF IsSuccess(response)
       THEN /\ SendReturn(SendError("nil", 0, NoLastErr))
            /\ UNCHANGED <<attempt, lastErr, timer, waitLog>>
       ELSE /\ lastErr' = MkLastErr(attempt, response)
            /\ IF response.status > 0 /\ ~isRetryableStatus(response.status)
               THEN /\ SendReturn(SendError("lastErr", attempt + 1, lastErr'))
                    /\ UNCHANGED <<attempt, timer, waitLog>>
               ELSE /\ attempt' = attempt
                    /\ IF attempt + 1 <= retryConfig.MaxRetries
                       THEN /\ spc' = "backoff"
                            /\ timer' \in BackoffTimers(retryConfig)
                            /\ waitLog' = Append(waitLog,
                                   [attempt |-> attempt + 1, state |-> "waiting"])
                            /\ UNCHANGED <<sctx, sendResult>>
                       ELSE /\ SendReturn(SendError("exhausted",
                                                    retryConfig.MaxRetries + 1, lastErr'))
                            /\ UNCHANGED <<timer, waitLog>>
    /\ UNCHANGED <<runnerVars, outputVars, backoffVars, cmdVars, wconfig, sentHeaders,
                   pending, marshals, jsonPayload, sentBodies, prior,
                   retryConfig, senv, cancelled, response, requests,
                   responses>>

\* lines 79-103 and the loop header of line 58: a 2xx ends the call with
\* nil; any other outcome is recorded in lastErr; a status that is not
\* retryable ends the call with lastErr; otherwise attempt++ and either the
\* backoff before the next attempt or, past MaxRetries, the aggregate error
HandleResponse ==
    /\ spc = "handle"
    /\ IF IsSuccess(response)
       THEN /\ SendReturn(SendError("nil", 0, NoLastErr))
            /\ UNCHANGED <<attempt, lastErr, timer, waitLog>>
       ELSE /\ lastErr' = MkLastErr(attempt, response)
            /\ IF response.status > 0 /\ ~isRetryableStatus(response.status)
               THEN /\ SendReturn(SendError("lastErr", attempt + 1, lastErr'))
                    /\ UNCHANGED <<attempt, timer, waitLog>>
               ELSE /\ attempt' = attempt + 1
                    /\ IF attempt + 1 <= retryConfig.MaxRetries
                       THEN /\ spc' = "backoff"
                            /\ timer' \in BackoffTimers(retryConfig)
                            /\ waitLog' = Append(waitLog,
                                   [attempt |-> attempt + 1, state |-> "waiting"])
                            /\ UNCHANGED <<sctx, sendResult>>
                       ELSE /\ SendReturn(SendError("exhausted",
                                                    retryConfig.MaxRetries + 1, lastErr'))
                            /\ UNCHANGED <<timer, waitLog>>
    /\ UNCHANGED <<runnerVars, outputVars, backoffVars, cmdVars, wconfig, sentHeaders,
                   pending, marshals, jsonPayload, sentBodies, prior,
                   retryConfig, senv, cancelled, response, requests,
                   responses>>

\* line 53: the timer of context.WithTimeout(ctx, c.config.Timeout) fires
SendDeadlineFire ==
    /\ sctx.exists
    /\ sctx.err = "nil"
    /\ sctx' = [sctx EXCEPT !.err = DeadlineExceeded]
    /\ UNCHANGED <<runnerVars, outputVars, backoffVars, cmdVars, wconfig, sentHeaders,
                   pending, marshals, jsonPayload, sentBodies, waitLog, prior,
                   retryConfig, senv, spc, attempt, cancelled, timer,
                   response, lastErr, requests, responses, sendResult>>

\* the caller cancels the context it handed to Send (line 45); the context
\* derived from it at line 53 is done with it
CallerCancel ==
    /\ spc # "done"
    /\ ~cancelled
    /\ cancelled' = TRUE
    /\ sctx' = IF sctx.exists /\ sctx.err = "nil"
               THEN [sctx EXCEPT !.err = "Canceled"]
               ELSE sctx
    /\ UNCHANGED <<runnerVars, outputVars, backoffVars, cmdVars, wconfig, sentHeaders,
                   pending, marshals, jsonPayload, sentBodies, waitLog, prior,
                   retryConfig, senv, spc, attempt, timer, response,
                   lastErr, requests, responses, sendResult>>

\* SendAgain for a client that keeps the attempt counter of its last call
SendAgainKeepsAttempt ==
    /\ spc = "done"
    /\ prior = <<>>
    /\ prior' = Append(prior, [kind |-> sendResult.kind, attempt |-> attempt])
    /\ spc' = "marshal"
    /\ sctx' = NoSendCtx
    /\ cancelled' = FALSE
    /\ timer' = "none"
    /\ response' = NoResponse
    /\ lastErr' = NoLastErr
    /\ requests' = 0
    /\ responses' = <<>>
    /\ sendResult' = SendPending
    /\ sentHeaders' = <<>>
    /\ pending' = 0
    /\ marshals' = 0
    /\ jsonPayload' = NoBytes
    /\ sentBodies' = <<>>
    /\ waitLog' = <<>>
    /\ UNCHANGED <<runnerVars, outputVars, backoffVars, cmdVars, wconfig, retryConfig,
                   senv, attempt>>

\* lines 45-58, entered for the second time on the same client, with a
\* context of its own: attempt, lastErr, jsonPayload and the context with
\* the overall timeout are locals of the call and start afresh; the Client
\* (lines 15-20) holds config, retryConfig, httpClient and verbose only.
\* What the first call came to is kept in prior
SendAgain ==
    /\ spc = "done"
    /\ prior = <<>>
    /\ prior' = Append(prior, [kind |-> sendResult.kind, attempt |-> attempt])
    /\ spc' = "marshal"
    /\ attempt' = 0
    /\ sctx' = NoSendCtx
    /\ cancelled' = FALSE
    /\ timer' = "none"
    /\ response' = NoResponse
    /\ lastErr' = NoLastErr
    /\ requests' = 0
    /\ responses' = <<>>
    /\ sendResult' = SendPending
    /\ sentHeaders' = <<>>
    /\ pending' = 0
    /\ marshals' = 0
    /\ jsonPayload' = NoBytes
    /\ sentBodies' = <<>>
    /\ waitLog' = <<>>
    /\ UNCHANGED <<runnerVars, outputVars, backoffVars, cmdVars, wconfig, retryConfig,
                   senv>>

SendNext ==
    \/ SendBegin
    \/ BackoffTimerFire
    \/ BackoffContinue
    \/ BackoffAbort
    \/ SendRequestStart
    \/ ServerRespond
    \/ TransportError
    \/ RequestCtxAbort
    \/ HandleResponse
    \/ SendDeadlineFire
    \/ CallerCancel

\* ============================================== OutputJSONAndWebhook
\* cmd/helpers/output.go: the result of the command is delivered to the
\* webhook, if one is configured, and then printed to stdout.

\* the *output.Result CreateJSONResult builds (lines 17-49), as far as the
\* delivery is concerned: it leaves WebhookSent and WebhookError at their
\* zero values
JSONResults ==
    [Status : {StatusSuccess, StatusFailed},
     ExitCode : {0, 42},
     Score : {NoScore},
     WebhookSent : {FALSE},
     WebhookError : {""}]

NoPayload == [Status |-> "", ExitCode |-> 0, Score |-> NoScore,
              WebhookSent |-> FALSE, WebhookError |-> ""]

\* err.Error() of what Send returned (client.go lines 49, 72, 89-91, 103)
LastErrString(c) ==
    "attempt " \o ToString(c.attempt) \o " failed" \o
    (IF c.kind = "status" THEN " with status " \o ToString(c.status)
     ELSE ": " \o c.err)

ErrorString(e) ==
    CASE e.kind = "marshal" -> "failed to marshal webhook payload"
      [] e.kind = "timeout" ->
            "webhook timeout after " \o ToString(e.attempts) \o " attempts: "
            \o e.cause.err
      [] e.kind = "lastErr" -> LastErrString(e.cause)
      [] e.kind = "exhausted" ->
            "webhook failed after " \o ToString(e.attempts) \o " attempts: "
            \o LastErrString(e.cause)
      [] OTHER -> ""

\* lines 122-124: the copy of the result handed to Send
WebhookPayload(r) == [r EXCEPT !.WebhookSent = FALSE, !.WebhookError = ""]

\* WithWebhookStatus that reports every delivery as sent
WithWebhookStatusAlwaysSent(r, e) == [r EXCEPT !.WebhookSent = TRUE]

\* lines 127-136: the outcome e of Send recorded in the result
WithWebhookStatus(r, e) ==
    IF e.kind # "nil"
    THEN [r EXCEPT !.WebhookSent = FALSE, !.WebhookError = ErrorString(e)]
    ELSE [r EXCEPT !.WebhookSent = TRUE]

\* OutputJSONAndWebhook is not called in this behaviour
OutputIdle ==
    /\ webhookURL = FALSE
    /\ jsonResult = NoPayload
    /\ opc = "idle"
    /\ payload = NoPayload
    /\ printed = <<>>
    /\ outErr = "pending"

\* the state before a call of OutputJSONAndWebhook: the webhook client is
\* not yet built and Send not yet called
OutputInit ==
    /\ webhookURL \in BOOLEAN
    /\ jsonResult \in JSONResults
    /\ opc = "start"
    /\ payload = NoPayload
    /\ printed = <<>>
    /\ outErr = "pending"

\* OutputJSON (lines 52-60) on result r: marshal, print, return
OutputJSON(r) ==
    IF senv.marshalFails
    THEN /\ outErr' = "failed to marshal JSON output"
         /\ UNCHANGED printed
    ELSE /\ printed' = Append(printed, Marshal(r))
         /\ outErr' = "nil"

\* lines 99-127, and 140 when no webhook is configured: with a webhook the
\* payload is copied and Send is called with context.Background(); without
\* one the result is printed at once
OutputBegin ==
    /\ opc = "start"
    /\ IF webhookURL
       THEN /\ payload' = WebhookPayload(jsonResult)
            /\ spc' = "marshal"
            /\ opc' = "sending"
            /\ UNCHANGED <<printed, outErr>>
       ELSE /\ OutputJSON(jsonResult)
            /\ opc' = "done"
            /\ UNCHANGED <<payload, spc>>
    /\ UNCHANGED <<runnerVars, backoffVars, cmdVars, webhookURL, jsonResult, wconfig,
                   sentHeaders, pending, marshals, jsonPayload, sentBodies,
                   waitLog, prior, retryConfig, senv, attempt, sctx, cancelled,
                   timer, response, lastErr, requests, responses, sendResult>>

\* OutputFinish that returns the error of Send instead of recording it
OutputFinishEscalates ==
    /\ opc = "sending"
    /\ spc = "done"
    /\ jsonResult' = WithWebhookStatus(jsonResult, sendResult)
    /\ IF sendResult.kind # "nil"
       THEN /\ outErr' = ErrorString(sendResult)
            /\ UNCHANGED printed
       ELSE OutputJSON(jsonResult')
    /\ opc' = "done"
    /\ UNCHANGED <<runnerVars, sendVars, backoffVars, cmdVars, webhookURL, payload>>

\* lines 127-140: Send has returned; its outcome is recorded in the result,
\* the result is printed and the error of OutputJSON returned
OutputFinish ==
    /\ opc = "sending"
    /\ spc = "done"
    /\ jsonResult' = WithWebhookStatus(jsonResult, sendResult)
    /\ OutputJSON(jsonResult')
    /\ opc' = "done"
    /\ UNCHANGED <<runnerVars, sendVars, backoffVars, cmdVars, webhookURL, payload>>

\* the steps of OutputJSONAndWebhook and of the Send it calls; nothing
\* cancels context.Background()
OutputNext ==
    \/ OutputBegin
    \/ OutputFinish
    \/ SendBegin
    \/ BackoffTimerFire
    \/ BackoffContinue
    \/ BackoffAbort
    \/ SendRequestStart
    \/ ServerRespond
    \/ TransportError
    \/ RequestCtxAbort
    \/ HandleResponse
    \/ SendDeadlineFire

\* ===================================================== calculateBackoff
\* Durations are counted in nanoseconds, as time.Duration counts them.  The
\* float64 arithmetic of the function is followed with exact fractions: the
\* multiplier is a fraction n/d, the random number of rand.Float64() one of
\* the JitterSteps values r/JitterSteps of [0, 1).

\* attempts run from -1 to MaxAttempt
MaxAttempt == 10

\* the values of rand.Float64() tried: 0/JitterSteps .. (JitterSteps-1)/JitterSteps
JitterSteps == 4

\* RetryConfig.InitialDelay: what time.ParseDuration accepts for
\* --webhook-retry-delay, negative durations included
InitialDelays == {-5, 0, 1, 5, 100}

\* RetryConfig.MaxDelay
MaxDelays == {0, 50, 5000}

\* RetryConfig.Multiplier: 1, 1.5 and 2
Multipliers == {[n |-> 1, d |-> 1], [n |-> 3, d |-> 2], [n |-> 2, d |-> 1]}

BackoffInputs ==
    [attempt : -1..MaxAttempt,
     InitialDelay : InitialDelays,
     MaxDelay : MaxDelays,
     Multiplier : Multipliers,
     rand : 0..(JitterSteps - 1)]

RECURSIVE IntPow(_, _)
\* b to the power k, k >= 0
IntPow(b, k) == IF k = 0 THEN 1 ELSE b * IntPow(b, k - 1)

\* time.Duration(f) for the fraction f = num/den, den > 0: the conversion of
\* a float64 to int64 drops the fractional part
Truncate(num, den) ==
    IF num >= 0 THEN num \div den ELSE -((-num) \div den)

\* CappedDelay without the cap of lines 19-21
UncappedDelay(in) ==
    LET k == in.attempt - 1
    IN  [num |-> in.InitialDelay * IntPow(in.Multiplier.n, k),
         den |-> IntPow(in.Multiplier.d, k)]

\* line 16 and lines 19-21: the delay before the jitter, as a fraction with
\* a positive denominator
CappedDelay(in) ==
    LET k   == in.attempt - 1
        num == in.InitialDelay * IntPow(in.Multiplier.n, k)
        den == IntPow(in.Multiplier.d, k)
    IN  IF num > in.MaxDelay * den
        THEN [num |-> in.MaxDelay, den |-> 1]
        ELSE [num |-> num, den |-> den]

\* calculateBackoff (retry.go lines 10-28): delay + (rand*2 - 1) * delay*0.1
\* is delay * (9*JitterSteps + 2*r) / (10*JitterSteps) for rand = r/JitterSteps
calculateBackoff(in) ==
    IF in.attempt <= 0
    THEN 0
    ELSE LET delay == CappedDelay(in)
         IN  Truncate(delay.num * (9 * JitterSteps + 2 * in.rand),
                      delay.den * 10 * JitterSteps)

NoBackoff == [done |-> FALSE, delay |-> 0]

\* calculateBackoff is not called in this behaviour
BackoffIdle ==
    /\ backoffIn = [attempt |-> 0, InitialDelay |-> 0, MaxDelay |-> 0,
                    Multiplier |-> [n |-> 1, d |-> 1], rand |-> 0]
    /\ backoffOut = NoBackoff

\* the arguments of a call of calculateBackoff and the number it will draw
BackoffInit ==
    /\ backoffIn \in BackoffInputs
    /\ backoffOut = NoBackoff

\* the call of calculateBackoff
CalculateBackoff ==
    /\ ~backoffOut.done
    /\ backoffOut' = [done |-> TRUE, delay |-> calculateBackoff(backoffIn)]
    /\ UNCHANGED <<runnerVars, sendVars, outputVars, cmdVars, backoffIn>>

\* ========================================================== ghost run
\* cmd/run.go: PreRunE parses the timeout and the webhook configuration,
\* runCommand sets up the upload, calls runner.Execute, uploads the captured
\* files, builds the JSON result and hands it to OutputJSONAndWebhook.
\* Execute and the upload of a file are calls whose outcome the environment
\* decides; the delivery is the one modelled above.

\* --timeout as typed
TimeoutStrs == {"", "invalid", "10", "0", "0s", "-1s", "100ms"}

\* time.ParseDuration on the strings above, in nanoseconds: a number without
\* a unit is an error, except a plain 0
ParseDuration(s) ==
    CASE s = "0" -> [ok |-> TRUE, d |-> 0]
      [] s = "0s" -> [ok |-> TRUE, d |-> 0]
      [] s = "-1s" -> [ok |-> TRUE, d |-> -1000000000]
      [] s = "100ms" -> [ok |-> TRUE, d |-> 100000000]
      [] OTHER -> [ok |-> FALSE, d |-> 0]

\* ParseTimeout that takes every duration time.ParseDuration parses
ParseTimeoutAnySign(s) ==
    IF s = "" THEN [err |-> "nil", d |-> 0]
    ELSE IF ~ParseDuration(s).ok
         THEN [err |-> "invalid timeout duration", d |-> 0]
         ELSE [err |-> "nil", d |-> ParseDuration(s).d]

\* ParseTimeout (cmd/helpers, lines 212-228 of the file as given)
ParseTimeout(s) ==
    IF s = "" THEN [err |-> "nil", d |-> 0]
    ELSE IF ~ParseDuration(s).ok
         THEN [err |-> "invalid timeout duration", d |-> 0]
         ELSE IF ParseDuration(s).d <= 0
              THEN [err |-> "timeout must be positive", d |-> 0]
              ELSE [err |-> "nil", d |-> ParseDuration(s).d]

\* what runner.Execute returns to runCommand: an error, or a Result
ExecOutcomes ==
    {[err |-> TRUE, Status |-> "", ExitCode |-> 0],
     [err |-> FALSE, Status |-> StatusSuccess, ExitCode |-> 0],
     [err |-> FALSE, Status |-> StatusFailed, ExitCode |-> 42],
     [err |-> FALSE, Status |-> StatusTimeout, ExitCode |-> -1]}

NoExecResult == [err |-> FALSE, Status |-> "", ExitCode |-> 0]

\* the two captured files HandleUploads is given
UploadFiles == {"output", "stderr"}

\* the flags: --timeout, --score (Changed("score") and its value), an upload
\* provider
RunFlags ==
    [TimeoutStr : TimeoutStrs,
     ScoreSet : BOOLEAN,
     Score : {85},
     Provider : BOOLEAN]

\* the environment: the webhook flags do not parse; the arguments or the
\* upload configuration are rejected; the outcome of Execute; the files whose
\* upload fails; BuildContext fails
RunEnvs ==
    [webhookConfig : {"ok", "invalid"},
     setup : {"ok", "invalid"},
     exec : ExecOutcomes,
     uploadFails : {{}, {"output"}, {"stderr"}},
     context : {"ok", "invalid"}]

\* CreateJSONResult that passes the score on whatever the exit code
CreateJSONResultKeepsScore(res, scoreSet, score) ==
    [Status |-> res.Status,
     ExitCode |-> res.ExitCode,
     Score |-> IF scoreSet THEN [set |-> TRUE, value |-> score] ELSE NoScore,
     WebhookSent |-> FALSE,
     WebhookError |-> ""]

\* CreateJSONResult (output.go lines 17-49), as far as status, exit code,
\* score and the webhook fields go
CreateJSONResult(res, scoreSet, score) ==
    [Status |-> res.Status,
     ExitCode |-> res.ExitCode,
     Score |-> IF scoreSet
               THEN IF res.ExitCode = 0
                    THEN [set |-> TRUE, value |-> score]
                    ELSE [set |-> TRUE, value |-> 0]
               ELSE NoScore,
     WebhookSent |-> FALSE,
     WebhookError |-> ""]

\* no invocation of ghost run in this behaviour
CmdIdle ==
    /\ flags = [TimeoutStr |-> "", ScoreSet |-> FALSE, Score |-> 85,
                Provider |-> FALSE]
    /\ cenv = [webhookConfig |-> "ok", setup |-> "ok", exec |-> NoExecResult,
               uploadFails |-> {}, context |-> "ok"]
    /\ cpc = "idle"
    /\ runTimeout = 0
    /\ execResult = NoExecResult
    /\ uploaded = {}
    /\ effects = <<>>
    /\ cmdErr = "pending"

\* the state as cobra calls PreRunE
CmdInit ==
    /\ flags \in RunFlags
    /\ cenv \in RunEnvs
    /\ cpc = "prerun"
    /\ runTimeout = 0
    /\ execResult = NoExecResult
    /\ uploaded = {}
    /\ effects = <<>>
    /\ cmdErr = "pending"

\* a return of the invocation with error e
CmdReturn(e) ==
    /\ cmdErr' = e
    /\ cpc' = "done"

\* run.go lines 152-168: PreRunE parses the timeout, then the webhook
\* configuration; an error of either ends the invocation before RunE
PreRun ==
    /\ cpc = "prerun"
    /\ LET t == ParseTimeout(flags.TimeoutStr)
       IN  IF t.err # "nil"
           THEN /\ CmdReturn(t.err)
                /\ UNCHANGED runTimeout
           ELSE /\ runTimeout' = t.d
                /\ IF cenv.webhookConfig = "invalid"
                   THEN CmdReturn("invalid webhook configuration")
                   ELSE cpc' = "run" /\ UNCHANGED cmdErr
    /\ UNCHANGED <<runnerVars, sendVars, outputVars, backoffVars, flags, cenv,
                   execResult, uploaded, effects>>

\* run.go lines 37-92: the arguments and the upload provider are checked,
\* with a provider the temporary files are created, and runner.Execute is
\* called with runFlags.Timeout
RunCommandBegin ==
    /\ cpc = "run"
    /\ IF cenv.setup = "invalid"
       THEN /\ CmdReturn("invalid arguments")
            /\ UNCHANGED effects
       ELSE /\ effects' = effects
                  \o (IF flags.Provider THEN <<"tempfiles">> ELSE <<>>)
                  \o <<"execute">>
            /\ cpc' = "executing"
            /\ UNCHANGED cmdErr
    /\ UNCHANGED <<runnerVars, sendVars, outputVars, backoffVars, flags, cenv,
                   runTimeout, execResult, uploaded>>

\* ExecuteReturns for a runCommand that goes on after an error of Execute
ExecuteReturnsIgnoresError ==
    /\ cpc = "executing"
    /\ execResult' = cenv.exec
    /\ cpc' = IF flags.Provider THEN "upload" ELSE "context"
    /\ effects' = Append(effects, IF cenv.exec.err THEN "execute failed"
                                  ELSE "executed")
    /\ UNCHANGED cmdErr
    /\ UNCHANGED <<runnerVars, sendVars, outputVars, backoffVars, flags, cenv,
                   runTimeout, uploaded>>

\* run.go lines 92-98: Execute returns; its error ends the invocation;
\* with a Result the uploads follow if a provider is configured
ExecuteReturns ==
    /\ cpc = "executing"
    /\ execResult' = cenv.exec
    /\ IF cenv.exec.err
       THEN /\ CmdReturn("failed to execute command")
            /\ effects' = Append(effects, "execute failed")
       ELSE /\ cpc' = IF flags.Provider THEN "upload" ELSE "context"
            /\ effects' = Append(effects, "executed")
            /\ UNCHANGED cmdErr
    /\ UNCHANGED <<runnerVars, sendVars, outputVars, backoffVars, flags, cenv,
                   runTimeout, uploaded>>

\* HandleUploads (lines 96-118 of dry_run.go), one file of the map per step,
\* in the order the range over the map yields them: the first failure ends
\* the invocation
UploadFile ==
    /\ cpc = "upload"
    /\ \E f \in UploadFiles \ uploaded :
         IF f \in cenv.uploadFails
         THEN /\ CmdReturn("failed to upload")
              /\ effects' = effects \o <<"upload " \o f, "upload failed">>
              /\ UNCHANGED uploaded
         ELSE /\ uploaded' = uploaded \cup {f}
              /\ effects' = Append(effects, "upload " \o f)
              /\ cpc' = IF uploaded' = UploadFiles THEN "context" ELSE "upload"
              /\ UNCHANGED cmdErr
    /\ UNCHANGED <<runnerVars, sendVars, outputVars, backoffVars, flags, cenv,
                   runTimeout, execResult>>

\* run.go lines 108-132: the context is built, the JSON result created, and
\* OutputJSONAndWebhook called
CallOutput ==
    /\ cpc = "context"
    /\ IF cenv.context = "invalid"
       THEN /\ CmdReturn("failed to build context")
            /\ UNCHANGED <<jsonResult, opc>>
       ELSE /\ jsonResult' = CreateJSONResult(execResult, flags.ScoreSet, flags.Score)
            /\ opc' = "start"
            /\ cpc' = "output"
            /\ UNCHANGED cmdErr
    /\ UNCHANGED <<runnerVars, sendVars, backoffVars, flags, cenv, runTimeout,
                   execResult, uploaded, effects, webhookURL, payload, printed,
                   outErr>>

\* run.go line 132: OutputJSONAndWebhook has returned and runCommand returns
\* its error
RunCommandReturn ==
    /\ cpc = "output"
    /\ opc = "done"
    /\ CmdReturn(outErr)
    /\ UNCHANGED <<runnerVars, sendVars, outputVars, backoffVars, flags, cenv,
                   runTimeout, execResult, uploaded, effects>>

\* the steps of one invocation of ghost run
RunNext ==
    \/ PreRun
    \/ RunCommandBegin
    \/ ExecuteReturns
    \/ UploadFile
    \/ CallOutput
    \/ RunCommandReturn
    \/ OutputBegin
    \/ OutputFinish
    \/ SendBegin
    \/ BackoffTimerFire
    \/ BackoffContinue
    \/ BackoffAbort
    \/ SendRequestStart
    \/ ServerRespond
    \/ TransportError
    \/ RequestCtxAbort
    \/ HandleResponse
    \/ SendDeadlineFire

\* ------------------------------------------------------------------ spec

\* a step of Execute itself in call i
RunnerStep(i) ==
    \/ CreateCommand(i)
    \/ OpenInput(i)
    \/ CreateOutput(i)
    \/ CreateStderr(i)
    \/ Start(i)
    \/ ProcessWait(i)
    \/ RecvCtxResult(i)
    \/ AwaitGoroutines(i)
    \/ ClassifyAndReturn(i)

RunnerNext ==
    \/ \E i \in Calls : CreateCommand(i)
    \/ \E i \in Calls : OpenInput(i)
    \/ \E i \in Calls : CreateOutput(i)
    \/ \E i \in Calls : CreateStderr(i)
    \/ \E i \in Calls : Start(i)
    \/ \E i \in Calls : ProcessWait(i)
    \/ \E i \in Calls : RecvCtxResult(i)
    \/ \E i \in Calls : AwaitGoroutines(i)
    \/ \E i \in Calls : ClassifyAndReturn(i)
    \/ \E i \in Calls : DeadlineFire(i)
    \/ Tick
    \/ \E i \in Calls : WatchCtxDone(i)
    \/ \E i \in Calls : WatchCtxCancel(i)
    \/ \E i \in Calls : ChildFork(i)
    \/ \E i \in Calls : WriteStderr(i)
    \/ \E i \in Calls : ChildExit(i)
    \/ \E i \in Calls : DescExit(i)
    \/ \E i \in Calls : CopyWriteFile(i)
    \/ \E i \in Calls : CopyWriteTerminal(i)
    \/ \E i \in Calls : CopyEOF(i)

\* one call of Execute, no call of Send
Init == RunnerInit({1}, Configs, Envs) /\ SendIdle /\ OutputIdle /\ BackoffIdle /\ CmdIdle

Next == RunnerNext

Spec == Init /\ [][Next]_vars

\* the scheduler runs every goroutine of the runner that can take a step, the
\* timer fires and the clock advances; nothing makes the child or its
\* descendant write, fork or end on their own
Fairness ==
    /\ \A i \in {1} : WF_vars(RunnerStep(i))
    /\ \A i \in {1} : WF_vars(DeadlineFire(i))
    /\ WF_vars(Tick)
    /\ \A i \in {1} : WF_vars(WatchCtxDone(i))
    /\ \A i \in {1} : WF_vars(WatchCtxCancel(i))
    /\ \A i \in {1} : WF_vars(CopyWriteFile(i))
    /\ \A i \in {1} : WF_vars(CopyWriteTerminal(i))
    /\ \A i \in {1} : WF_vars(CopyEOF(i))

FairSpec == Init /\ [][Next]_vars /\ Fairness

\* one call of Send, no call of Execute
SendOnlyInit == RunnerInit({}, Configs, Envs) /\ SendInit /\ OutputIdle /\ BackoffIdle /\ CmdIdle

SendSpec == SendOnlyInit /\ [][SendNext]_vars

\* one call of Send by a client without authentication
SendFairInit ==
    /\ SendOnlyInit
    /\ wconfig.AuthType = "none"
    /\ DOMAIN wconfig.Headers = {}

\* Send runs whenever it can take a step; a request on its way ends, by an
\* answer, by an error of the transport, at the latest by the 10 s timeout
\* of the http.Client (NewClient lines 34-37), or by the context; the timer
\* of a backoff and the timer of the overall timeout fire.  Nothing makes
\* the caller cancel
SendFairness ==
    /\ WF_vars(SendBegin \/ BackoffContinue \/ BackoffAbort
                \/ SendRequestStart \/ HandleResponse)
    /\ WF_vars(ServerRespond \/ TransportError \/ RequestCtxAbort)
    /\ WF_vars(BackoffTimerFire)
    /\ WF_vars(SendDeadlineFire)

SendFairSpec == SendFairInit /\ [][SendNext]_vars /\ SendFairness

\* two successive calls of Send on one client
SeqNext ==
    \/ SendBegin
    \/ BackoffTimerFire
    \/ BackoffContinue
    \/ BackoffAbort
    \/ SendRequestStart
    \/ ServerRespond
    \/ TransportError
    \/ RequestCtxAbort
    \/ HandleResponse
    \/ SendDeadlineFire
    \/ CallerCancel
    \/ SendAgain

SeqSpec == SendFairInit /\ [][SeqNext]_vars

\* a caller that may cancel while it runs one of the two blocking steps: one
\* call of Execute, or one call of Send
CancelInit ==
    \/ RunnerInit({1}, Configs, Envs) /\ SendIdle /\ OutputIdle /\ BackoffIdle /\ CmdIdle
    \/ RunnerInit({}, Configs, Envs) /\ SendInit /\ OutputIdle /\ BackoffIdle /\ CmdIdle

CancelNext == RunnerNext \/ SendNext

CancelSpec == CancelInit /\ [][CancelNext]_vars

\* two concurrent calls of Execute with distinct configurations, both of
\* which reach cmd.Run: call 1 is verbose and has no deadline, and its child
\* may fork, writes a chunk to stderr and exits with a nonzero code; call 2
\* has a deadline and its child is silent and exits with 0
ConcCalls == {1, 2}

ConcConfigs == [Timeout : 0..1, Verbose : BOOLEAN]

ConcEnvs == [input : {TRUE}, output : {"ok"}, stderr : {"ok"}, command : {"ok"},
             childEnd : {[how |-> "exit", n |-> 0], [how |-> "exit", n |-> 42]},
             forks : BOOLEAN, chunks : 0..1]

ConcInit ==
    /\ RunnerInit(ConcCalls, ConcConfigs, ConcEnvs)
    /\ SendIdle
    /\ OutputIdle
    /\ BackoffIdle
    /\ CmdIdle
    /\ config[1] = [Timeout |-> 0, Verbose |-> TRUE]
    /\ config[2] = [Timeout |-> 1, Verbose |-> FALSE]
    /\ env[1].childEnd.n = 42 /\ env[1].forks /\ env[1].chunks = 1
    /\ env[2].childEnd.n = 0 /\ ~env[2].forks /\ env[2].chunks = 0

ConcSpec == ConcInit /\ [][RunnerNext]_vars


\* one call of OutputJSONAndWebhook: the Send it may call has not begun
OutputOnlyInit ==
    /\ RunnerInit({}, Configs, Envs)
    /\ BackoffIdle
    /\ CmdIdle
    /\ OutputInit
    /\ retryConfig \in RetryConfigs
    /\ senv \in SendEnvs
    /\ wconfig \in [AuthType : {"bearer"}, AuthToken : {"test-token"},
                    Headers : {[k \in {} |-> ""]}]
    /\ sentHeaders = <<>>
    /\ pending = 0
    /\ marshals = 0
    /\ jsonPayload = NoBytes
    /\ sentBodies = <<>>
    /\ waitLog = <<>>
    /\ prior = <<>>
    /\ spc = "idle"
    /\ attempt = 0
    /\ sctx = NoSendCtx
    /\ cancelled = FALSE
    /\ timer = "none"
    /\ response = NoResponse
    /\ lastErr = NoLastErr
    /\ requests = 0
    /\ responses = <<>>
    /\ sendResult = SendPending

OutputSpec == OutputOnlyInit /\ [][OutputNext]_vars

\* one call of calculateBackoff
BackoffOnlyInit ==
    /\ RunnerInit({}, Configs, Envs)
    /\ SendIdle
    /\ OutputIdle
    /\ CmdIdle
    /\ BackoffInit

BackoffNext == CalculateBackoff

BackoffSpec == BackoffOnlyInit /\ [][BackoffNext]_vars


\* one invocation of ghost run: Execute is a call that returns, the client
\* of the webhook allows at most one retry
RunOnlyInit ==
    /\ RunnerInit({}, Configs, Envs)
    /\ BackoffIdle
    /\ CmdInit
    /\ webhookURL \in BOOLEAN
    /\ jsonResult = NoPayload
    /\ opc = "idle"
    /\ payload = NoPayload
    /\ printed = <<>>
    /\ outErr = "pending"
    /\ retryConfig \in [MaxRetries : 0..1, InitialDelay : {1}]
    /\ senv \in [marshalFails : {FALSE}, buildFails : {FALSE}]
    /\ wconfig \in [AuthType : {"bearer"}, AuthToken : {"test-token"},
                    Headers : {[k \in {} |-> ""]}]
    /\ sentHeaders = <<>>
    /\ pending = 0
    /\ marshals = 0
    /\ jsonPayload = NoBytes
    /\ sentBodies = <<>>
    /\ waitLog = <<>>
    /\ prior = <<>>
    /\ spc = "idle"
    /\ attempt = 0
    /\ sctx = NoSendCtx
    /\ cancelled = FALSE
    /\ timer = "none"
    /\ response = NoResponse
    /\ lastErr = NoLastErr
    /\ requests = 0
    /\ responses = <<>>
    /\ sendResult = SendPending

RunSpec == RunOnlyInit /\ [][RunNext]_vars

\* ---------------------------------------------------------------- claims

Returned(i) == pc[i] = "done"

HasResult(i) == result[i].kind = "result"

Spawned(i) == child[i].state # "none"

\* the child ended by itself: it exited, or died of a signal not sent by the runner
EndedOnOwn(i) == child[i].status.how \in {"exit", "signal"}

\* C1: Execute reports timeout if and only if the deadline elapsed before the
\* child exited on its own: a child that ended by itself before the deadline
\* fired is never reported as timeout, and a child still running when the
\* deadline fired is never reported as success or failed.
C1_TimeoutIffDeadlineFirst ==
    \A i \in Calls :
        HasResult(i) =>
            /\ (EndedOnOwn(i) /\ ~hist[i].firedAtExit => result[i].Status # StatusTimeout)
            /\ (hist[i].runningAtFire => result[i].Status = StatusTimeout)

\* C2: every Result has a status in {success, failed, timeout}, status is
\* success if and only if exit_code is 0, and failed implies exit_code # 0.
C2_StatusMatchesExitCode ==
    \A i \in Calls :
        HasResult(i) =>
            /\ result[i].Status \in Statuses
            /\ (result[i].Status = StatusSuccess <=> result[i].ExitCode = 0)
            /\ (result[i].Status = StatusFailed => result[i].ExitCode # 0)

\* C2 witness: a Result with status failed and the child's nonzero exit code,
\* returned by a call that had a deadline.
C2_Witness ==
    \E i \in Calls :
        /\ HasResult(i)
        /\ config[i].Timeout > 0
        /\ result[i].Status = StatusFailed
        /\ result[i].ExitCode = 42

\* C3: when the deadline elapses while the child is still running, Execute
\* returns a Result with status timeout and exit_code -1 and a nil error.
C3_DeadlineWhileRunningIsTimeout ==
    \A i \in Calls :
        (Returned(i) /\ hist[i].runningAtFire) =>
            /\ HasResult(i)
            /\ result[i].Status = StatusTimeout
            /\ result[i].ExitCode = -1
            /\ result[i].err = "nil"

\* C4: exit_code -1 is reserved for deadline termination: a Result has
\* exit_code -1 if and only if its status is timeout.
C4_MinusOneIffTimeout ==
    \A i \in Calls :
        HasResult(i) => (result[i].ExitCode = -1 <=> result[i].Status = StatusTimeout)

\* C5: Execute never returns while the spawned child is unreaped, on the
\* normal-exit path and on the deadline path alike.
C5_ReapedBeforeReturn ==
    \A i \in Calls : Returned(i) => child[i].state \in {"none", "reaped"}

\* C5 witness: Execute has returned after the runner's kill ended the child,
\* and the child has been reaped.
C5_Witness ==
    \E i \in Calls :
        /\ Returned(i)
        /\ child[i].status = KilledStatus
        /\ child[i].state = "reaped"

\* C6: with a deadline, once the deadline has fired on a running child,
\* Execute eventually returns, whether or not the child or a descendant
\* holding its stderr ever finishes its own work.
C6_ReturnsAfterDeadline ==
    hist[1].runningAtFire ~> Returned(1)

\* C7: with deadline 0 no timer exists, the runner never signals the child,
\* the status is never timeout, and Execute returns only after a spawned
\* child ended on its own.
C7_NoDeadlineNoTimer ==
    \A i \in Calls :
        config[i].Timeout = 0 =>
            /\ ~ctx[i].exists
            /\ watch[i].pc = "none"
            /\ child[i].status # KilledStatus
            /\ (HasResult(i) => result[i].Status # StatusTimeout)
            /\ (Returned(i) /\ Spawned(i) => EndedOnOwn(i))

\* C7 witness: a call without a deadline returned a Result after the clock
\* ran to its end.
C7_Witness ==
    \E i \in Calls :
        /\ config[i].Timeout = 0
        /\ HasResult(i)
        /\ now = MaxTime

\* C8: when the child exits on its own with code N before any deadline fires
\* (or with no deadline), the Result has exit_code N, status success for
\* N = 0 and failed for every other N.
C8_NaturalExitCodeReported ==
    \A i \in Calls :
        (HasResult(i) /\ child[i].status.how = "exit" /\ ~hist[i].firedAtExit) =>
            /\ result[i].ExitCode = child[i].status.n
            /\ result[i].Status = IF child[i].status.n = 0 THEN StatusSuccess
                                                          ELSE StatusFailed

\* the state of the call in the state machine of the runner; an error return
\* is outside that machine
Phase(i) ==
    IF result[i].kind = "error" THEN "Error"
    ELSE IF HasResult(i)
         THEN IF result[i].Status = StatusTimeout THEN "TimedOut" ELSE "Completed"
         ELSE IF Spawned(i) THEN "Running" ELSE "NotStarted"

\* C9: one call follows NotStarted -> Running -> (Completed | TimedOut):
\* Completed and TimedOut are reached from Running only, and nothing leaves
\* them.  (Error returns are left open here.)
C9_StateMachine ==
    [][\A i \in Calls :
         Phase(i)' # Phase(i) =>
           \/ Phase(i) = "NotStarted" /\ Phase(i)' \in {"Running", "Error"}
           \/ Phase(i) = "Running" /\ Phase(i)' \in {"Completed", "TimedOut", "Error"}]_vars

\* the one case in which a spawned child yields an error: it exited with code
\* 0, the deadline had not fired when the status was determined, and the copy
\* of its stderr to the verbose fan-out failed
CopyErrorOnly(i) ==
    /\ copier[i].failed
    /\ Success(child[i].status)
    /\ ctx[i].err # DeadlineExceeded

\* C10 as stated: whenever the child was spawned, Execute returns a fully
\* populated Result and a nil error.
C10_SpawnedAlwaysResult ==
    \A i \in Calls : (Returned(i) /\ Spawned(i)) => HasResult(i)

\* C10 as amended: whenever the child was spawned, Execute returns a fully
\* populated Result and a nil error, whatever the exit code and whether or
\* not the deadline fired, except when the child exited with code 0, the
\* deadline had not fired and the copy of its stderr failed: then it returns
\* an error.
C10_SpawnedResultUnlessCopyError ==
    \A i \in Calls :
        (Returned(i) /\ Spawned(i)) =>
            IF CopyErrorOnly(i)
            THEN result[i].kind = "error"
            ELSE /\ HasResult(i)
                 /\ result[i].Status \in Statuses
                 /\ result[i].ExecutionTime >= 0
                 /\ result[i].err = "nil"

\* C10 witness: a child whose stderr copy failed and that exited with a
\* nonzero code still yields a Result.
C10_Witness ==
    \E i \in Calls :
        /\ Returned(i)
        /\ copier[i].failed
        /\ HasResult(i)
        /\ result[i].Status = StatusFailed

\* C11: a failure to start the child always makes Execute return an error
\* and no Result, never a Result with status failed or timeout, also when a
\* deadline is configured and has elapsed by the time the failure is seen.
C11_StartFailureIsError ==
    \A i \in Calls :
        (Returned(i) /\ err[i] = "StartError") =>
            /\ result[i].kind = "error"
            /\ result[i].err = "failed to start command"

\* C12: when the input file cannot be opened Execute returns an I/O error and
\* no Result, and before any side effect: no child is spawned, and neither
\* the output file nor the stderr file nor their directories are created.
C12_MissingInputNoSideEffect ==
    \A i \in Calls :
        ~env[i].input =>
            /\ ~Spawned(i)
            /\ created[i] = {}
            /\ openFiles[i] = {}
            /\ Returned(i) => /\ result[i].kind = "error"
                              /\ result[i].err = "failed to open input file"

\* C12 witness: a call whose input is missing has returned its error, in an
\* environment in which the output and stderr files could have been created.
C12_Witness ==
    \E i \in Calls :
        /\ Returned(i)
        /\ ~env[i].input
        /\ env[i].output = "ok"
        /\ env[i].stderr = "ok"
        /\ result[i].kind = "error"

\* the destinations createFileWithDir is called for
Destinations == {"output", "stderr"}

\* C13: for the output and stderr destinations the parent directories are
\* created before the file is opened; if the creation of a directory or of a
\* file fails for either, Execute returns an error and no Result, no child is
\* spawned, and every file already opened by the call is closed.
C13_CreateFailureClosesFiles ==
    \A i \in Calls :
        /\ \A w \in Destinations :
              <<w, "file">> \in created[i] => <<w, "dir">> \in created[i]
        /\ (env[i].input /\ (env[i].output # "ok" \/ env[i].stderr # "ok")) =>
              /\ ~Spawned(i)
              /\ Returned(i) => /\ result[i].kind = "error"
                                /\ result[i].err \in {"failed to create output file",
                                                      "failed to create stderr file"}
                                /\ openFiles[i] = {}

\* C13 witness: the stderr file could not be created after the input was
\* opened and the output file created; the call has returned.
C13_Witness ==
    \E i \in Calls :
        /\ Returned(i)
        /\ env[i].input
        /\ env[i].stderr = "createFails"
        /\ <<"output", "file">> \in created[i]
        /\ <<"stderr", "dir">> \in created[i]
        /\ result[i].err = "failed to create stderr file"

\* s is an initial part of t
IsPrefix(s, t) == Len(s) <= Len(t) /\ SubSeq(t, 1, Len(s)) = s

\* the first n chunks the child and its descendant wrote, in order
FirstChunks(n) == [k \in 1..n |-> k]

\* C14 as stated: in verbose mode the two copies of the child's stderr agree
\* on all completed chunks at every point and are identical when Execute
\* returns.
C14_VerboseCopiesIdentical ==
    \A i \in Calls :
        config[i].Verbose =>
            /\ copier[i].pc = "copying" => stderrFile[i] = terminal[i]
            /\ Returned(i) => stderrFile[i] = terminal[i]

\* C14 as amended: in verbose mode both copies hold the chunks in the order
\* they were written, the runner's own stderr is never ahead of the file and
\* at most the chunk in progress behind it, the copies agree whenever the
\* copier is between two chunks, and when Execute returns they are identical
\* unless a write to the runner's own stderr failed: then the file holds that
\* one chunk more.  When no write failed both hold everything written.
C14_VerboseCopiesAgreeUnlessWriteFails ==
    \A i \in Calls :
        config[i].Verbose =>
            /\ stderrFile[i] = FirstChunks(Len(stderrFile[i]))
            /\ IsPrefix(terminal[i], stderrFile[i])
            /\ Len(stderrFile[i]) - Len(terminal[i]) <= 1
            /\ copier[i].pc = "copying" => stderrFile[i] = terminal[i]
            /\ Returned(i) =>
                  IF copier[i].failed /\ "terminal" \in copier[i].tried
                  THEN stderrFile[i] = Append(terminal[i], copier[i].cur)
                  ELSE stderrFile[i] = terminal[i]
            /\ (Returned(i) /\ Spawned(i) /\ ~copier[i].failed) =>
                  terminal[i] = FirstChunks(written[i])

\* C14 witness: a verbose call has returned with two chunks in both copies.
C14_Witness ==
    \E i \in Calls :
        /\ Returned(i)
        /\ config[i].Verbose
        /\ ~copier[i].failed
        /\ Len(terminal[i]) >= 2
        /\ stderrFile[i] = terminal[i]

\* C15: in the verbose fan-out, for a chunk whose write to one destination
\* fails the write to the other destination is still attempted, and the
\* first error is surfaced by Execute.
C15_FailedWriteStillFansOut ==
    \A i \in Calls :
        copier[i].failed =>
            /\ copier[i].tried = {"file", "terminal"}
            /\ Returned(i) => result[i].kind = "error"

SendReturned == spc = "done"

\* the k-th attempt of the call observed a 2xx response
Observed2xx(k) ==
    /\ responses[k].err = "nil"
    /\ responses[k].status \in 200..299

\* C18: Send returns nil if and only if some attempt of the call observed a
\* 2xx response; the first 2xx ends the call at once: it is the last thing
\* observed and no HTTP request is issued after it.
C18_NilIffObserved2xx ==
    /\ SendReturned =>
          (sendResult.kind = "nil" <=> \E k \in 1..Len(responses) : Observed2xx(k))
    /\ \A k \in 1..Len(responses) :
          Observed2xx(k) =>
              /\ k = Len(responses)
              /\ spc \in {"handle", "done"}
              /\ requests <= k

\* C18 witness: Send returned nil for a 2xx observed on its second attempt.
C18_Witness ==
    /\ SendReturned
    /\ sendResult.kind = "nil"
    /\ Len(responses) = 2
    /\ requests = 2
    /\ Observed2xx(2)

\* the retryable set as documented
DocumentedRetryable == {408, 425, 429, 500, 502, 503, 504}

\* C19: a response is retried exactly when its status is in {408, 425, 429,
\* 500, 502, 503, 504}: for each of these a failed attempt that is not the
\* last allowed one does not end the call, and every other non-2xx status
\* ends it with no further attempt.
C19_RetriedIffRetryable ==
    \A k \in 1..Len(responses) :
        (responses[k].err = "nil" /\ ~Observed2xx(k)) =>
            IF responses[k].status \in DocumentedRetryable
            THEN k <= retryConfig.MaxRetries =>
                    ~(SendReturned /\ sendResult.kind = "lastErr"
                                   /\ sendResult.attempts = k)
            ELSE /\ k = Len(responses)
                 /\ spc \in {"handle", "done"}
                 /\ requests <= k

\* every request of the call so far was answered with a retryable status
AlwaysRetryable ==
    /\ responses # <<>>
    /\ \A k \in 1..Len(responses) :
          /\ responses[k].err = "nil"
          /\ responses[k].status \in DocumentedRetryable

\* C20: against an endpoint that answers every request with a retryable
\* status, with no cancellation and no overall timeout, Send issues exactly
\* max_retries + 1 requests and returns the aggregate error naming
\* max_retries + 1 attempts; no Send issues more than max_retries + 1.
C20_ExhaustsAllAttempts ==
    /\ requests <= retryConfig.MaxRetries + 1
    /\ (SendReturned /\ AlwaysRetryable /\ ~cancelled /\ sctx.err # DeadlineExceeded) =>
          /\ requests = retryConfig.MaxRetries + 1
          /\ sendResult.kind = "exhausted"
          /\ sendResult.attempts = retryConfig.MaxRetries + 1

\* C16: concurrent calls of Execute with distinct configurations do not
\* interfere: under every interleaving the Result of a call is determined by
\* its own configuration and its own child, a child is killed by the deadline
\* of its own call only, and when all calls have returned no file of any call
\* is open and no child is unreaped.
C16_CallsDoNotInterfere ==
    /\ \A i \in Calls :
          /\ child[i].status \in {NoStatus, env[i].childEnd, KilledStatus}
          /\ child[i].status = KilledStatus =>
                /\ config[i].Timeout > 0
                /\ ctx[i].err = DeadlineExceeded
          /\ HasResult(i) =>
                /\ result[i].Status = StatusSuccess =>
                      child[i].status = env[i].childEnd /\ Success(env[i].childEnd)
                /\ result[i].Status = StatusFailed =>
                      result[i].ExitCode = ExitStatus(child[i].status)
                /\ result[i].Status = StatusTimeout =>
                      config[i].Timeout > 0 /\ ctx[i].err = DeadlineExceeded
          /\ Returned(i) => openFiles[i] = {}
    /\ (\A i \in Calls : Returned(i)) =>
          \A i \in Calls : child[i].state \in {"none", "reaped"}

\* C16 witness: the deadline of one call has killed its child while the
\* child of the other call, which has no deadline, is still running.
C16_Witness ==
    \E i, j \in Calls :
        /\ i # j
        /\ child[i].status = KilledStatus
        /\ child[j].state = "running"
        /\ config[j].Timeout = 0

\* the caller's cancellation has reached the context of every call of
\* Execute that is blocked in cmd.Run
CancelReachesExecute ==
    \A i \in Calls :
        (cancelled /\ pc[i] \in {"wait", "recv", "await"}) =>
            /\ ctx[i].exists
            /\ ctx[i].err # "nil"

\* the caller's cancellation has reached the context of Send
CancelReachesSend ==
    (cancelled /\ sctx.exists) => sctx.err # "nil"

\* C17: a caller-supplied cancellation propagates into both blocking steps:
\* once the caller has cancelled, the context Execute waits on and the
\* context Send's backoff waits on are done, so neither keeps waiting for
\* its full timeout.
C17_CancelUnblocksBoth ==
    /\ CancelReachesExecute
    /\ CancelReachesSend

\* the k-th attempt observed a status of the documented retryable set
ObservedRetryable(k) ==
    /\ responses[k].err = "nil"
    /\ responses[k].status \in DocumentedRetryable

\* what Send has observed so far is the beginning of an exchange in which
\* the endpoint answers k <= max_retries requests with a retryable status
\* and the next with a 2xx
RetryThenSuccess ==
    /\ responses # <<>>
    /\ \A k \in 1..(Len(responses) - 1) : ObservedRetryable(k)
    /\ \/ Observed2xx(Len(responses)) /\ Len(responses) - 1 <= retryConfig.MaxRetries
       \/ ObservedRetryable(Len(responses)) /\ Len(responses) <= retryConfig.MaxRetries

\* C21: if the endpoint answers the first k requests with a retryable status
\* and the next with a 2xx, k <= max_retries, and nothing cancels the call,
\* Send returns only at the 2xx, with nil, after exactly k + 1 requests.
C21_RetryUntilSuccess ==
    (SendReturned /\ RetryThenSuccess /\ ~cancelled /\ sctx.err # DeadlineExceeded) =>
        /\ Observed2xx(Len(responses))
        /\ sendResult.kind = "nil"
        /\ requests = Len(responses)

\* the k-th attempt observed a status that is neither 2xx nor retryable
ObservedNonRetryable(k) ==
    /\ responses[k].err = "nil"
    /\ responses[k].status \notin 200..299
    /\ responses[k].status \notin DocumentedRetryable

\* C22: a non-2xx status outside the retryable set ends the call at that
\* attempt, whatever max_retries is: no further request is issued and Send
\* returns the error naming the status; an endpoint that always answers such
\* a status gets exactly one request.
C22_NonRetryableStatusEndsCall ==
    \A k \in 1..Len(responses) :
        ObservedNonRetryable(k) =>
            /\ k = Len(responses)
            /\ spc \in {"handle", "done"}
            /\ requests <= k
            /\ k = 1 => requests = 1
            /\ SendReturned =>
                  /\ sendResult.kind = "lastErr"
                  /\ sendResult.attempts = k
                  /\ sendResult.cause.kind = "status"
                  /\ sendResult.cause.status = responses[k].status

\* C22 witness: with retries left, Send has returned the error of a 400
\* observed on its second attempt.
C22_Witness ==
    /\ SendReturned
    /\ Len(responses) = 2
    /\ retryConfig.MaxRetries >= 2
    /\ ObservedRetryable(1)
    /\ responses[2].status = 400
    /\ sendResult.kind = "lastErr"

\* the k-th attempt failed without an HTTP status, for a reason that no
\* retry can cure: the request could not be built, or the context of the
\* call was done
ObservedFatalTransport(k) ==
    responses[k].err \in {"build", "Canceled", DeadlineExceeded}

\* C23: a transport-level error that is not retryable ends the call at that
\* attempt: no further attempt is made, no backoff is waited out, and Send
\* returns that error.
C23_FatalTransportEndsCall ==
    \A k \in 1..Len(responses) :
        ObservedFatalTransport(k) =>
            /\ k = Len(responses)
            /\ \/ spc \in {"handle", "done"}
               \/ spc = "backoff" /\ timer = "armed" /\ sctx.err # "nil"
            /\ SendReturned => sendResult.cause.err = responses[k].err

\* C24: if the overall deadline or a cancellation fires while Send waits in
\* the backoff before attempt k, the wait ends there: the timer can no
\* longer win, and the step that leaves the wait returns the timeout error
\* annotated with the k attempts made, without another request.
C24_DoneContextAbortsBackoff ==
    [][(spc = "backoff" /\ timer = "armed" /\ sctx.err # "nil") =>
          \/ spc' = "backoff" /\ timer' = "armed"
          \/ /\ spc' = "done"
             /\ sendResult'.kind = "timeout"
             /\ sendResult'.attempts = attempt
             /\ attempt = Len(responses)
             /\ sendResult'.cause.err = sctx.err
             /\ requests' = requests]_vars

\* C24 witness: the overall deadline ended the wait before the third
\* attempt; Send returned the timeout error naming two attempts.
C24_Witness ==
    /\ SendReturned
    /\ retryConfig.InitialDelay = 1
    /\ sendResult.kind = "timeout"
    /\ sendResult.attempts = 2
    /\ sendResult.cause.err = DeadlineExceeded
    /\ requests = 2

\* the error Send returned wraps an error of the context of the call
WrapsContextError(e) == e.cause.err \in {"Canceled", DeadlineExceeded}

\* the last thing sendRequest returned was observed while the context of
\* the call was not done
LastObservedInTime ==
    /\ responses # <<>>
    /\ responses[Len(responses)].ctx = "nil"

\* the payload can be marshalled and the request can be built
Deliverable == ~senv.marshalFails /\ ~senv.buildFails

\* C25: an external cancellation aborts the call whatever retries remain, in
\* every interleaving: no HTTP request is started after the cancellation,
\* and unless Send returns on what it had observed before the cancellation
\* it returns an error that wraps the error of the context.
C25_CancelAbortsCall ==
    /\ [](  (SendReturned /\ cancelled /\ Deliverable) =>
                \/ sendResult.kind # "nil" /\ WrapsContextError(sendResult)
                \/ LastObservedInTime)
    /\ [][cancelled => requests' = requests]_vars

\* C26: the overall timeout bounds the whole Send: once it has expired no
\* new request is started, Send never returns nil for a response observed
\* after the expiry, and unless Send returns on what it had observed before
\* the expiry it returns an error that wraps the deadline error.
C26_TimeoutBoundsSend ==
    /\ [](  (SendReturned /\ sctx.err = DeadlineExceeded /\ Deliverable) =>
                \/ sendResult.kind # "nil" /\ WrapsContextError(sendResult)
                \/ LastObservedInTime)
    /\ [](  \A k \in 1..Len(responses) :
                (Observed2xx(k) /\ responses[k].ctx = DeadlineExceeded) =>
                    ~(SendReturned /\ sendResult.kind = "nil"))
    /\ [][sctx.err = DeadlineExceeded => requests' = requests]_vars

\* ------------------------------------------------------------------ C27

\* base = min(initial_delay * multiplier^(attempt-1), max_delay) of a call
\* with attempt >= 1, as a fraction bn/bd with bd > 0
BaseDen == IntPow(backoffIn.Multiplier.d, backoffIn.attempt - 1)

BaseNum ==
    LET raw == backoffIn.InitialDelay
               * IntPow(backoffIn.Multiplier.n, backoffIn.attempt - 1)
    IN  IF raw <= backoffIn.MaxDelay * BaseDen
        THEN raw ELSE backoffIn.MaxDelay * BaseDen

\* C27 as stated: 0 for attempt <= 0; for attempt >= 1 a value within
\* [0.9*base, 1.1*base]; never negative, never above 1.1*max_delay
C27_WithinTenPercentOfBase ==
    backoffOut.done =>
        LET v == backoffOut.delay
        IN  /\ backoffIn.attempt <= 0 => v = 0
            /\ backoffIn.attempt >= 1 =>
                   /\ 9 * BaseNum <= 10 * BaseDen * v
                   /\ 10 * BaseDen * v <= 11 * BaseNum
            /\ v >= 0
            /\ 10 * v <= 11 * backoffIn.MaxDelay

\* C27, amended: 0 for attempt <= 0; for attempt >= 1 the result is
\* base*(1+j), j in [-0.1, 0.1), with the fraction of a nanosecond dropped:
\* for base >= 0 it is above 0.9*base - 1ns and at most 1.1*base, hence
\* never negative and never above 1.1*max_delay; for base < 0 (a negative
\* initial_delay) it is at least 1.1*base, below 0.9*base + 1ns and never
\* positive.  With initial 100, multiplier 2, max 5000: attempt 1 in
\* [90,110], 2 in [180,220], 3 in [360,440], 10 in [4500,5500]
C27_TruncatedWithinTenPercentOfBase ==
    backoffOut.done =>
        LET v == backoffOut.delay
        IN  /\ backoffIn.attempt <= 0 => v = 0
            /\ backoffIn.attempt >= 1 /\ BaseNum >= 0 =>
                   /\ 9 * BaseNum - 10 * BaseDen < 10 * BaseDen * v
                   /\ 10 * BaseDen * v <= 11 * BaseNum
                   /\ v >= 0
                   /\ 10 * v <= 11 * backoffIn.MaxDelay
            /\ backoffIn.attempt >= 1 /\ BaseNum < 0 =>
                   /\ 11 * BaseNum <= 10 * BaseDen * v
                   /\ 10 * BaseDen * v < 9 * BaseNum + 10 * BaseDen
                   /\ v <= 0
            /\ /\ backoffIn.InitialDelay = 100
                /\ backoffIn.MaxDelay = 5000
                /\ backoffIn.Multiplier = [n |-> 2, d |-> 1]
                =>
                /\ backoffIn.attempt = 1 => v \in 90..110
                /\ backoffIn.attempt = 2 => v \in 180..220
                /\ backoffIn.attempt = 3 => v \in 360..440
                /\ backoffIn.attempt = 10 => v \in 4500..5500

\* the call of the table of TestCalculateBackoff that is capped at max_delay
C27_Witness ==
    /\ backoffOut.done
    /\ backoffIn.attempt = 10
    /\ backoffIn.InitialDelay = 100
    /\ backoffIn.MaxDelay = 5000
    /\ backoffIn.Multiplier = [n |-> 2, d |-> 1]
    /\ backoffOut.delay \in 4500..5500

\* ------------------------------------------------------------------ C28

\* the header field the authentication of a mode sets, and the value the
\* mode gives it
AuthHeaderOk(h) ==
    /\ wconfig.AuthType = "bearer" =>
           h["Authorization"] = "Bearer test-token"
    /\ wconfig.AuthType = "api-key" =>
           h["X-Api-Key"] = "test-token"
    /\ wconfig.AuthType = "none" =>
           \A k \in {"Authorization", "X-Api-Key"} :
               h[k] = IF k \in DOMAIN wconfig.Headers
                      THEN wconfig.Headers[k] ELSE Absent

\* C28: every request of a Send carries the header of the auth mode: bearer
\* sets Authorization to "Bearer <token>", api-key sets X-API-Key to the
\* token, none sets neither (the two fields are as the custom headers of the
\* endpoint left them, absent when there are none); every request sent has
\* headers, and a retry has the headers of the first attempt
C28_AuthHeaderOnEveryRequest ==
    /\ Len(sentHeaders) = requests
    /\ \A k \in 1..Len(sentHeaders) :
         /\ AuthHeaderOk(sentHeaders[k])
         /\ sentHeaders[k] = sentHeaders[1]

\* a retry was sent by a client with bearer authentication whose custom
\* headers name Authorization too
C28_Witness ==
    /\ Len(sentHeaders) >= 2
    /\ wconfig.AuthType = "bearer"
    /\ "Authorization" \in DOMAIN wconfig.Headers

\* ------------------------------------------------------------------ C29

\* a field of a printed JSON object as a reader of stdout decodes it: a key
\* that is left out reads as the zero value
Decoded(obj, key, zero) == IF key \in DOMAIN obj THEN obj[key] ELSE zero

\* OutputJSONAndWebhook has returned after a delivery that failed: the
\* retries were exhausted, a status was not retryable, or the overall
\* timeout expired during a backoff
DeliveryFailed ==
    /\ opc = "done"
    /\ webhookURL
    /\ sendResult.kind \in {"exhausted", "lastErr", "timeout"}

\* C29: a delivery failure never fails the invocation: the result is printed
\* to stdout exactly once and no error is returned, the printed webhook_sent
\* is false and webhook_error is not empty; the delivery changes neither
\* status nor exit_code of the result, and the printed ones are the result's
C29_DeliveryFailureIsData ==
    /\ [](DeliveryFailed =>
             /\ outErr = "nil"
             /\ Len(printed) = 1
             /\ Decoded(printed[1], "webhook_sent", FALSE) = FALSE
             /\ Decoded(printed[1], "webhook_error", "") # ""
             /\ printed[1]["status"] = jsonResult.Status
             /\ printed[1]["exit_code"] = jsonResult.ExitCode)
    /\ [][/\ jsonResult'.Status = jsonResult.Status
          /\ jsonResult'.ExitCode = jsonResult.ExitCode
          /\ Len(printed') <= 1]_vars

\* the result of a failed command was printed after every attempt of the
\* delivery had been answered with a retryable status
C29_Witness ==
    /\ DeliveryFailed
    /\ sendResult.kind = "exhausted"
    /\ requests >= 2
    /\ jsonResult.ExitCode = 42
    /\ Len(printed) = 1

\* ------------------------------------------------------------------ C30

\* C30: with a webhook configured the printed webhook_sent is true exactly
\* when Send returned nil, and then webhook_error is empty; the payload
\* handed to Send has webhook_sent false and webhook_error empty; without a
\* webhook URL Send is never called and both fields stay unset, in the
\* result and in what is printed
C30_WebhookSentIffSendNil ==
    /\ (webhookURL /\ opc = "done" /\ Len(printed) = 1) =>
          /\ Decoded(printed[1], "webhook_sent", FALSE) = TRUE
                <=> sendResult.kind = "nil"
          /\ sendResult.kind = "nil" =>
                Decoded(printed[1], "webhook_error", "") = ""
    /\ (webhookURL /\ opc \in {"sending", "done"}) =>
          /\ payload.WebhookSent = FALSE
          /\ payload.WebhookError = ""
          /\ payload.Status = jsonResult.Status
          /\ payload.ExitCode = jsonResult.ExitCode
    /\ spc # "idle" => webhookURL /\ opc \in {"sending", "done"}
    /\ ~webhookURL =>
          /\ spc = "idle"
          /\ requests = 0
          /\ jsonResult.WebhookSent = FALSE
          /\ jsonResult.WebhookError = ""
          /\ \A k \in 1..Len(printed) :
                DOMAIN printed[k] = {"status", "exit_code"}

\* a result printed with webhook_sent true after a delivery that needed a
\* retry
C30_Witness ==
    /\ webhookURL
    /\ opc = "done"
    /\ Len(printed) = 1
    /\ "webhook_sent" \in DOMAIN printed[1]
    /\ printed[1]["webhook_sent"] = TRUE
    /\ sendResult.kind = "nil"
    /\ requests >= 2

\* ------------------------------------------------------------------ C33

\* the request of an attempt is started in this step
RequestStarts == requests' = requests + 1

\* C33: the attempts of one Send are strictly sequential: at most one HTTP
\* request of the call is in flight, and only while Send is inside the
\* sendRequest of that attempt; the request of an attempt is started only
\* after every earlier attempt has returned to Send and been classified;
\* when Send has returned no request is in flight and no backoff wait is
\* pending
C33_AttemptsAreSequential ==
    /\ [](/\ pending \in {0, 1}
          /\ pending = 1 <=> spc = "inflight"
          /\ spc = "done" =>
                /\ pending = 0
                /\ timer = "none"
                /\ \A k \in 1..Len(waitLog) : waitLog[k].state # "waiting")
    /\ [][RequestStarts =>
             /\ pending = 0
             /\ Len(responses) = attempt
             /\ attempt > 0 => lastErr.attempt = attempt]_vars

\* Send has returned after a second request that followed a completed
\* backoff wait
C33_Witness ==
    /\ spc = "done"
    /\ requests >= 2
    /\ Len(waitLog) >= 1
    /\ waitLog[1].state = "completed"

\* ------------------------------------------------------------------ C34

\* C34: the payload is serialized exactly once per Send, before the first
\* attempt: every request of the call carries the body of the first, which
\* is the serialization of the payload Send was given, and Send does not
\* change that payload
C34_PayloadSerializedOnce ==
    /\ [](/\ marshals <= 1
          /\ spc \notin {"idle", "marshal"} => marshals = 1
          /\ Len(sentBodies) = requests
          /\ \A k \in 1..Len(sentBodies) :
                /\ sentBodies[k] = sentBodies[1]
                /\ sentBodies[k] = Marshal(payload))
    /\ [][spc # "idle" => payload' = payload]_vars

\* a retry has carried the result of a failed command
C34_Witness ==
    /\ Len(sentBodies) >= 2
    /\ sentBodies[2]["exit_code"] = 42
    /\ sentBodies[2]["status"] = StatusFailed
    /\ marshals = 1

\* ------------------------------------------------------------------ C35

\* the backoff waits 1..n, each for calculateBackoff of its own attempt, each
\* completed
CompletedWaits(n) ==
    /\ Len(waitLog) = n
    /\ \A k \in 1..n : waitLog[k] = [attempt |-> k, state |-> "completed"]

\* C35: attempt 0 is issued with no backoff wait, and attempt k >= 1 after
\* exactly one completed wait of calculateBackoff(k) for each of the
\* attempts 1..k; while a backoff wait is going on no request is issued
C35_OneBackoffBeforeEachRetry ==
    /\ [](/\ spc \in {"request", "inflight", "handle"} => CompletedWaits(attempt)
          /\ (\E k \in 1..Len(waitLog) : waitLog[k].state = "waiting")
                => spc = "backoff")
    /\ [][/\ RequestStarts => spc = "request" /\ CompletedWaits(requests)
          /\ spc = "backoff" => requests' = requests]_vars

\* the third attempt is on its way after two backoff waits
C35_Witness ==
    /\ spc = "inflight"
    /\ attempt = 2
    /\ requests = 3
    /\ CompletedWaits(2)

\* ------------------------------------------------------------------ C36

\* C36: Send always terminates: whatever the endpoint answers, whichever
\* requests fail, whenever the timers fire and whether or not the caller
\* cancels, Send returns, with nil or with an error, and it has then called
\* sendRequest at most MaxRetries + 1 times
C36_SendTerminates ==
    /\ <>(spc = "done" /\ sendResult.kind # "pending")
    /\ [](/\ Len(responses) <= retryConfig.MaxRetries + 1
          /\ requests <= Len(responses) + 1
          /\ attempt <= retryConfig.MaxRetries + 1)

\* Send has returned after the last attempt the policy allows, every one of
\* them answered with a retryable status
C36_Witness ==
    /\ spc = "done"
    /\ retryConfig.MaxRetries >= 2
    /\ sendResult.kind = "exhausted"
    /\ Len(responses) = retryConfig.MaxRetries + 1
    /\ requests = retryConfig.MaxRetries + 1

\* ------------------------------------------------------------------ C37

\* the outcome of the call that is running or has just returned, told from
\* what this call alone has observed
OutcomeIsOfThisCall ==
    /\ Len(responses) <= retryConfig.MaxRetries + 1
    /\ spc \in {"request", "inflight"} => Len(responses) = attempt
    /\ spc = "done" =>
          /\ sendResult.kind = "nil" <=>
                (Len(responses) > 0 /\ Observed2xx(Len(responses)))
          /\ sendResult.kind = "exhausted" =>
                /\ Len(responses) = retryConfig.MaxRetries + 1
                /\ sendResult.cause.attempt = Len(responses)
          /\ sendResult.kind = "lastErr" =>
                /\ sendResult.attempts = Len(responses)
                /\ sendResult.cause.attempt = Len(responses)
          /\ sendResult.kind = "timeout" =>
                sendResult.attempts = Len(responses)

\* C37: a client keeps no state between calls: Send changes neither the
\* endpoint configuration nor the RetryConfig of the client, and a call of
\* Send, the second on the same client included, starts at attempt 0
\* with no context, no request and no error of an earlier call, and its
\* outcome follows from what this call itself observed
C37_NoStateBetweenCalls ==
    /\ [](/\ spc = "marshal" =>
                /\ attempt = 0
                /\ sctx = NoSendCtx
                /\ lastErr = NoLastErr
                /\ requests = 0
                /\ timer = "none"
          /\ OutcomeIsOfThisCall)
    /\ [][retryConfig' = retryConfig /\ wconfig' = wconfig]_vars

\* the second call on a client has returned nil at its first attempt after
\* the first call had used up its attempts
C37_Witness ==
    /\ Len(prior) = 1
    /\ prior[1].kind = "exhausted"
    /\ prior[1].attempt >= 2
    /\ spc = "done"
    /\ sendResult.kind = "nil"
    /\ Len(responses) = 1

\* ------------------------------------------------------------------ C31

\* --timeout values that are malformed, zero or negative
BadTimeoutStrs == {"invalid", "10", "0", "0s", "-1s"}

\* the errors of ParseTimeout
TimeoutErrors == {"invalid timeout duration", "timeout must be positive"}

\* C31: a malformed, zero or negative timeout is an error of the invocation
\* raised before anything runs: no temporary file is made, Execute is not
\* called (no child, no output or stderr file), nothing is uploaded, no
\* webhook is sent and nothing is printed; an empty timeout string is no
\* error and means no deadline
C31_BadTimeoutStopsBeforeRun ==
    /\ flags.TimeoutStr \in BadTimeoutStrs =>
          /\ cpc \in {"prerun", "done"}
          /\ cpc = "done" => cmdErr \in TimeoutErrors
          /\ effects = <<>>
          /\ uploaded = {}
          /\ spc = "idle"
          /\ requests = 0
          /\ printed = <<>>
    /\ flags.TimeoutStr = "" =>
          /\ runTimeout = 0
          /\ cmdErr \notin TimeoutErrors
    /\ (flags.TimeoutStr = "100ms" /\ cpc # "prerun") =>
          /\ runTimeout = 100000000
          /\ cmdErr \notin TimeoutErrors

\* an invocation with --timeout -1s, an upload provider and a webhook has
\* returned its error
C31_Witness ==
    /\ cpc = "done"
    /\ flags.TimeoutStr = "-1s"
    /\ flags.Provider
    /\ webhookURL
    /\ cmdErr = "timeout must be positive"

\* ------------------------------------------------------------------ C32

\* the score rule on a JSON object of the output
ScoreRule(obj) ==
    /\ "score" \in DOMAIN obj <=> flags.ScoreSet
    /\ "score" \in DOMAIN obj =>
          obj["score"] = IF obj["exit_code"] = 0 THEN flags.Score ELSE 0

\* C32: the score field of the output is present exactly when the score flag
\* was set; it is the score given when exit_code is 0, and 0 for every
\* other exit code, -1 of a timeout included; the same holds of the body
\* sent to the webhook
C32_ScoreOnlyForExitZero ==
    /\ \A k \in 1..Len(printed) :
          /\ ScoreRule(printed[k])
          /\ printed[k]["exit_code"] = execResult.ExitCode
    /\ \A k \in 1..Len(sentBodies) : ScoreRule(sentBodies[k])

\* the result of a command that timed out was printed with a score of 0
C32_Witness ==
    /\ Len(printed) = 1
    /\ flags.ScoreSet
    /\ printed[1]["exit_code"] = -1
    /\ printed[1]["status"] = StatusTimeout
    /\ printed[1]["score"] = 0

\* ------------------------------------------------------------------ C38

IsUpload(e) == e \in {"upload " \o f : f \in UploadFiles}

\* C38: in a run invocation Execute, the uploads, the webhook and the
\* printing of the JSON follow each other in this order: an upload starts
\* only after Execute has returned a Result; a request to the webhook is
\* made only after Execute has returned a Result and, with a provider, both
\* files are uploaded, and before the JSON is printed; the JSON is printed
\* when Send is over; after an error of Execute or of an upload no webhook
\* is sent and nothing printed
C38_ExecuteUploadWebhookPrint ==
    /\ [](/\ \A k \in 1..Len(effects) :
                IsUpload(effects[k]) => \E j \in 1..(k - 1) : effects[j] = "executed"
          /\ (spc # "idle" \/ requests > 0 \/ printed # <<>>) =>
                /\ \E j \in 1..Len(effects) : effects[j] = "executed"
                /\ ~execResult.err
                /\ flags.Provider => uploaded = UploadFiles
          /\ (execResult.err \/ \E j \in 1..Len(effects) :
                                    effects[j] \in {"execute failed", "upload failed"}) =>
                /\ spc = "idle"
                /\ requests = 0
                /\ printed = <<>>
                /\ cpc = "done" => cmdErr \notin {"nil", "pending"})
    /\ [][/\ RequestStarts => printed = <<>>
          /\ printed' # printed =>
                /\ pending = 0
                /\ spc \in {"idle", "done"}
                /\ webhookURL => spc = "done"]_vars

\* the JSON was printed after both uploads and a delivery that took a retry
C38_Witness ==
    /\ cpc = "done"
    /\ flags.Provider
    /\ uploaded = UploadFiles
    /\ requests = 2
    /\ Len(printed) = 1
    /\ cmdErr = "nil"

====
